---- MODULE Spec2Model ----
(***************************************************************************)
(* Model of src/dan/run.ts (the revision with LogStream / ProgressBar /    *)
(* ProgressSet): the line splitter, the line router of channelExec, the    *)
(* progress bars, the diagnostics handler and the exit handling.           *)
(*                                                                         *)
(* A JavaScript string is a sequence of one-character strings; the token   *)
(* "ESC" stands for the single character U+001B.                           *)
(***************************************************************************)
EXTENDS Integers, Sequences, FiniteSets, TLC

\* ------------------------------------------------------------------ chars

Digit == {"0", "1", "2", "3", "4", "5", "6", "7", "8", "9"}

Letter ==
  {"a", "b", "c", "d", "e", "f", "g", "h", "i", "j", "k", "l", "m",
   "n", "o", "p", "q", "r", "s", "t", "u", "v", "w", "x", "y", "z",
   "A", "B", "C", "D", "E", "F", "G", "H", "I", "J", "K", "L", "M",
   "N", "O", "P", "Q", "R", "S", "T", "U", "V", "W", "X", "Y", "Z"}

\* JavaScript line terminators and white space that occur in the inputs
LineTerminator == {"\n", "\r"}

WhiteSpace == {" ", "\t", "\f"} \cup LineTerminator

DigitVal ==
  [c \in Digit |->
     CASE c = "0" -> 0 [] c = "1" -> 1 [] c = "2" -> 2 [] c = "3" -> 3
       [] c = "4" -> 4 [] c = "5" -> 5 [] c = "6" -> 6 [] c = "7" -> 7
       [] c = "8" -> 8 [] c = "9" -> 9]

\* F applied to the value of v, which is evaluated once
With(v, F(_)) == CHOOSE y \in {F(x) : x \in {v}} : TRUE

\* the least and the greatest element of a non-empty set of integers
Min(S) == CHOOSE j \in S : \A j2 \in S : j <= j2

Max(S) == CHOOSE j \in S : \A j2 \in S : j >= j2

\* parseInt of a string of decimal digits (the captures of \d+ and \d+?)
RECURSIVE parseIntFrom(_, _, _)
parseIntFrom(s, i, acc) ==
  IF i > Len(s) THEN acc ELSE parseIntFrom(s, i + 1, acc * 10 + DigitVal[s[i]])

parseInt(s) == parseIntFrom(s, 1, 0)

\* ------------------------------------------------- regular expressions
\* A character class is [neg, cs]: the characters of cs, or all others.
Cls(cs) == [neg |-> FALSE, cs |-> cs]

NotCls(cs) == [neg |-> TRUE, cs |-> cs]

InCls(c, k) == (c \in k.cs) # k.neg

ReDigit == Cls(Digit)                             \* \d

ReSpace == Cls(WhiteSpace)                        \* \s

ReWord == Cls(Letter \cup Digit \cup {"_"})       \* \w

ReAny == NotCls(LineTerminator)                   \* .

\* A regular expression is a program of a backtracking matcher, the way the
\* JavaScript engine runs it: a greedy repetition takes the longest run for
\* which the rest matches, a lazy one the shortest, and an optional group is
\* tried before it is skipped. Offsets are relative: programs concatenate.
IOne(k) == [op |-> "one", k |-> k, a |-> 0, b |-> 0, g |-> FALSE, s |-> <<>>]

ILit(s) == [op |-> "lit", k |-> Cls({}), a |-> 0, b |-> 0, g |-> FALSE, s |-> s]

IRep(k, min, greedy) ==
  [op |-> "rep", k |-> k, a |-> min, b |-> 0, g |-> greedy, s |-> <<>>]

ISplit(a, b) ==
  [op |-> "split", k |-> Cls({}), a |-> a, b |-> b, g |-> FALSE, s |-> <<>>]

ISave(n) == [op |-> "save", k |-> Cls({}), a |-> n, b |-> 0, g |-> FALSE, s |-> <<>>]

IEol == [op |-> "eol", k |-> Cls({}), a |-> 0, b |-> 0, g |-> FALSE, s |-> <<>>]

One(k) == <<IOne(k)>>                             \* k

Lit(s) == <<ILit(s)>>                             \* the characters of s

Plus(k) == <<IRep(k, 1, TRUE)>>                   \* k+

PlusLazy(k) == <<IRep(k, 1, FALSE)>>              \* k+?

Star(k) == <<IRep(k, 0, TRUE)>>                   \* k*

Opt(p) == <<ISplit(1, Len(p) + 1)>> \o p          \* (?:p)?

Group(n, p) == <<ISave(2 * n - 1)>> \o p \o <<ISave(2 * n)>>   \* (p), group n

Eol == <<IEol>>                                   \* $

MaxGroups == 5

NoCaps == [n \in 1..(2 * MaxGroups) |-> 0]

NoMatch == [ok |-> FALSE, caps |-> NoCaps]

\* the number of characters of class k that s holds from position i on
RunLen(s, i, k) ==
  With({j \in i..Len(s) : ~InCls(s[j], k)},
       LAMBDA stop : IF stop = {} THEN Len(s) - i + 1 ELSE Min(stop) - i)

\* of the attempts that matched, the longest (greedy) or the shortest (lazy)
Preferred(good, greedy) ==
  CHOOSE t \in good :
    \A u \in good : IF greedy THEN t.len >= u.len ELSE t.len <= u.len

RECURSIVE ReRun(_, _, _, _, _)
ReRun(prog, s, pc, i, caps) ==
  IF pc > Len(prog) THEN [ok |-> TRUE, caps |-> caps]
  ELSE LET ins == prog[pc] IN
    CASE ins.op = "one" ->
           IF i <= Len(s) /\ InCls(s[i], ins.k)
             THEN ReRun(prog, s, pc + 1, i + 1, caps) ELSE NoMatch
      [] ins.op = "lit" ->
           IF i + Len(ins.s) - 1 <= Len(s)
                /\ SubSeq(s, i, i + Len(ins.s) - 1) = ins.s
             THEN ReRun(prog, s, pc + 1, i + Len(ins.s), caps) ELSE NoMatch
      [] ins.op = "rep" ->
           With({t \in {[len |-> l,
                          r |-> ReRun(prog, s, pc + 1, i + l, caps)] :
                           l \in ins.a..RunLen(s, i, ins.k)} : t.r.ok},
                LAMBDA good : IF good = {} THEN NoMatch
                              ELSE Preferred(good, ins.g).r)
      [] ins.op = "split" ->
           With(ReRun(prog, s, pc + ins.a, i, caps),
                LAMBDA r : IF r.ok THEN r
                           ELSE ReRun(prog, s, pc + ins.b, i, caps))
      [] ins.op = "save" ->
           ReRun(prog, s, pc + 1, i, [caps EXCEPT ![ins.a] = i])
      [] ins.op = "eol" ->
           IF i = Len(s) + 1 THEN ReRun(prog, s, pc + 1, i, caps) ELSE NoMatch

\* RegExp.prototype.exec without the sticky flag: the leftmost start that matches
ReExec(prog, s) ==
  With({t \in {[len |-> st, r |-> ReRun(prog, s, 1, st, NoCaps)] :
                  st \in 1..(Len(s) + 1)} : t.r.ok},
       LAMBDA good : IF good = {} THEN NoMatch ELSE Preferred(good, FALSE).r)

\* m[n] of a match: the text of group n, and whether the group took part
HasGroup(m, n) == m.caps[2 * n - 1] # 0 /\ m.caps[2 * n] # 0

GroupText(m, s, n) == SubSeq(s, m.caps[2 * n - 1], m.caps[2 * n] - 1)

\* ------------------------------------------------------------- run.ts regexes
\* /(\d+)-(.+):\s+(?:(\d+?)%\|.+?\|)?\s*(.+?)\s\[(.+?)\]/
barExpr ==
  Group(1, Plus(ReDigit)) \o Lit(<<"-">>) \o Group(2, Plus(ReAny))
    \o Lit(<<":">>) \o Plus(ReSpace)
    \o Opt(Group(3, PlusLazy(ReDigit)) \o Lit(<<"%", "|">>)
             \o PlusLazy(ReAny) \o Lit(<<"|">>))
    \o Star(ReSpace) \o Group(4, PlusLazy(ReAny)) \o One(ReSpace)
    \o Lit(<<"[">>) \o Group(5, PlusLazy(ReAny)) \o Lit(<<"]">>)

\* /DIAGNOSTICS: (.+)$/
diagExpr ==
  Lit(<<"D", "I", "A", "G", "N", "O", "S", "T", "I", "C", "S", ":", " ">>)
    \o Group(1, Plus(ReAny)) \o Eol

\* LogStream._expr: /\[([\d:.]+)\]\[(\w+)\]\s*(.+?):\s*(.+)/
LogStream_expr ==
  Lit(<<"[">>) \o Group(1, Plus(Cls(Digit \cup {":", "."})))
    \o Lit(<<"]", "[">>) \o Group(2, Plus(ReWord)) \o Lit(<<"]">>)
    \o Star(ReSpace) \o Group(3, PlusLazy(ReAny)) \o Lit(<<":">>)
    \o Star(ReSpace) \o Group(4, Plus(ReAny))

\* LogStream._sequenceExpr: /\x1b\[./
LogStream_sequenceExpr == Lit(<<"ESC", "[">>) \o One(ReAny)

\* ------------------------------------------------------------ line splitter
\* String.prototype.split(/\r?\n|\r/): the pieces between the delimiters
\* \r\n, \n and \r, the empty pieces included.
\* a split on \n alone
NextTerminator_newlineOnly(s, i) ==
  With({j \in i..Len(s) : s[j] = "\n"},
       LAMBDA at : IF at = {} THEN Len(s) + 1 ELSE Min(at))

\* the first position >= i that holds a line terminator, Len(s) + 1 if none
NextTerminator(s, i) ==
  With({j \in i..Len(s) : s[j] \in {"\n", "\r"}},
       LAMBDA at : IF at = {} THEN Len(s) + 1 ELSE Min(at))

RECURSIVE splitLines(_, _)
splitLines(s, i) ==
  With(NextTerminator(s, i),
       LAMBDA j :
         IF j > Len(s) THEN <<SubSeq(s, i, Len(s))>>
         ELSE IF s[j] = "\r" /\ j < Len(s) /\ s[j + 1] = "\n"
                THEN <<SubSeq(s, i, j - 1)>> \o splitLines(s, j + 2)
         ELSE <<SubSeq(s, i, j - 1)>> \o splitLines(s, j + 1))

\* String.prototype.trim
trim(s) ==
  With({j \in 1..Len(s) : s[j] \notin WhiteSpace},
       LAMBDA keep : IF keep = {} THEN <<>>
                     ELSE SubSeq(s, Min(keep), Max(keep)))

\* processBuffer: the lines handed to fn for one chunk, in order
RECURSIVE keepLines(_)
keepLines(pieces) ==
  IF pieces = <<>> THEN <<>>
  ELSE With(trim(Head(pieces)),
            LAMBDA line :
              IF Len(line) > 0 THEN <<line>> \o keepLines(Tail(pieces))
              ELSE keepLines(Tail(pieces)))

processBuffer(data) == With(splitLines(data, 1), LAMBDA pieces : keepLines(pieces))

\* ------------------------------------------------------------- JSON.parse
\* JSON.parse for the JSON texts of the inputs: objects, arrays, strings
\* without escapes and unsigned integers, with white space between tokens.
\* A value is [t, v]; an object's v is its sequence of <<key, value>> members.
JsonWs == {" ", "\t", "\n", "\r"}

JFail == [ok |-> FALSE, val |-> [t |-> "none", v |-> 0], next |-> 0]

JOk(t, v, next) == [ok |-> TRUE, val |-> [t |-> t, v |-> v], next |-> next]

RECURSIVE jsonSkip(_, _)
jsonSkip(s, i) ==
  IF i <= Len(s) /\ s[i] \in JsonWs THEN jsonSkip(s, i + 1) ELSE i

RECURSIVE jsonString(_, _, _)
jsonString(s, i, acc) ==
  IF i > Len(s) \/ s[i] = "\\" THEN JFail
  ELSE IF s[i] = "\"" THEN JOk("string", acc, i + 1)
  ELSE jsonString(s, i + 1, Append(acc, s[i]))

RECURSIVE jsonNumber(_, _, _)
jsonNumber(s, i, acc) ==
  IF i <= Len(s) /\ s[i] \in Digit
    THEN jsonNumber(s, i + 1, acc * 10 + DigitVal[s[i]])
    ELSE JOk("number", acc, i)

RECURSIVE jsonValue(_, _)
RECURSIVE jsonMembers(_, _, _)
RECURSIVE jsonElements(_, _, _)

\* the value after "{" or "[" at position i: empty, or members / elements
jsonOpen(s, i, j) ==
  IF s[i] = "{"
    THEN IF j <= Len(s) /\ s[j] = "}" THEN JOk("object", <<>>, j + 1)
         ELSE jsonMembers(s, j, <<>>)
    ELSE IF j <= Len(s) /\ s[j] = "]" THEN JOk("array", <<>>, j + 1)
         ELSE jsonElements(s, j, <<>>)

jsonValueAt(s, i) ==
  IF i > Len(s) THEN JFail
  ELSE IF s[i] \in {"{", "["}
         THEN With(jsonSkip(s, i + 1), LAMBDA j : jsonOpen(s, i, j))
  ELSE IF s[i] = "\"" THEN jsonString(s, i + 1, <<>>)
  ELSE IF s[i] \in Digit THEN jsonNumber(s, i, 0)
  ELSE JFail

jsonValue(s, i0) == With(jsonSkip(s, i0), LAMBDA i : jsonValueAt(s, i))

\* after a member or an element at position e: the closing bracket ends the
\* value of type t, a comma goes on
jsonAfter(s, e, t, items) ==
  IF e > Len(s) THEN JFail
  ELSE IF s[e] = (IF t = "object" THEN "}" ELSE "]") THEN JOk(t, items, e + 1)
  ELSE IF s[e] = ","
         THEN IF t = "object"
                THEN With(jsonSkip(s, e + 1),
                          LAMBDA n : jsonMembers(s, n, items))
                ELSE jsonElements(s, e + 1, items)
  ELSE JFail

\* the value of a member whose key k was read: ":" and a value
jsonMember(s, k, acc) ==
  With(jsonSkip(s, k.next),
       LAMBDA c :
         IF c > Len(s) \/ s[c] # ":" THEN JFail
         ELSE With(jsonValue(s, c + 1),
                   LAMBDA v :
                     IF ~v.ok THEN JFail
                     ELSE With(jsonSkip(s, v.next),
                               LAMBDA e :
                                 jsonAfter(s, e, "object",
                                           Append(acc, <<k.val.v, v.val>>)))))

\* members of an object from position i on: "key" : value (, "key" : value)* }
jsonMembers(s, i, acc) ==
  IF i > Len(s) \/ s[i] # "\"" THEN JFail
  ELSE With(jsonString(s, i + 1, <<>>),
            LAMBDA k : IF ~k.ok THEN JFail ELSE jsonMember(s, k, acc))

\* elements of an array from position i on: value (, value)* ]
jsonElements(s, i, acc) ==
  With(jsonValue(s, i),
       LAMBDA v :
         IF ~v.ok THEN JFail
         ELSE With(jsonSkip(s, v.next),
                   LAMBDA e : jsonAfter(s, e, "array", Append(acc, v.val))))

\* JSON.parse(text): [ok, val]; ok = FALSE is the SyntaxError it throws
JSONparse(text) ==
  With(jsonValue(text, 1),
       LAMBDA r :
         IF r.ok /\ jsonSkip(text, r.next) = Len(text) + 1
           THEN [ok |-> TRUE, val |-> r.val]
           ELSE [ok |-> FALSE, val |-> JFail.val])

\* ---------------------------------------------------------------- state
VARIABLES
  pc,               \* channelExec: "idle", "streaming" (awaiting finished()),
                    \* "exited", "reporting", "settled"
  call,             \* the arguments of the invocation
  bars,             \* ProgressSet.bars: id -> ProgressBar
  onCancel,         \* ProgressSet.onCancel is set
  nextInst,         \* the number of ProgressBar objects constructed so far
  channel,          \* the entries of the "dan" output channel
  notifications,    \* the messages shown with showErrorMessage
  diags,            \* the diagnostic collection: file -> entries
  received,         \* the chunks of the "data" events so far, concatenated
  routed,           \* the lines handed to the onLine callback, in order
  uncaught,         \* the exceptions that left a "data" listener
  nData,            \* the "data" events delivered
  calls,            \* the calls made on a ProgressSet used on its own
  execs,            \* the channelExec invocations the extension started, when
                    \* several run side by side: [call, pc, bars, nextInst,
                    \* routed, outcome] each
  codeData,         \* codeCommand's data: the lines collected for JSON.parse
  proc,             \* the child: [killed, signals, spawnfail, errored, exited,
                    \* exitCode]
  rc,               \* the value finished() resolved with
  cancelRequested,  \* the main bar's cancellation token has fired
  outcome,          \* of channelExec's promise: "pending", "resolved", "rejected"
  danConfig,        \* the DanConfig object, the configuration file on disk
                    \* and the frames of the call in progress
  provider,         \* the cpptools ConfigurationProvider: its cache and the
                    \* canProvideConfiguration calls in progress
  danExt            \* the Dan object: targets, stored selections, the
                    \* events fired and the commands launched

vars ==
  <<pc, call, bars, onCancel, nextInst, channel, notifications, diags,
    received, routed, uncaught, nData, calls, execs, codeData, proc, rc,
    cancelRequested, outcome, danConfig, provider, danExt>>

\* -------------------------------------------------------------- bounds
MaxChunks == 2

\* the longest chunk of the line splitter's inputs
MaxChunkLen == 2

\* the calls made on a ProgressSet used on its own
MaxCalls == 4

\* the channelExec invocations the extension starts in one behaviour
MaxExecs == 2

\* the longest chunk given to processBuffer on its own
LineChunkLen == 3

\* -------------------------------------------------- ProgressBar, ProgressSet
\* new ProgressBar(title, cancellable): withProgress runs the task at once, so
\* progress and token are set when the constructor returns; done is pending.
ProgressBar_new(inst, title, cancellable) ==
  [inst |-> inst, title |-> title, cancellable |-> cancellable,
   currentPercentage |-> 0, disposed |-> FALSE, hasCallback |-> FALSE,
   reports |-> <<>>]

\* ProgressBar.dispose: resolves done
ProgressBar_dispose(bar) == [bar EXCEPT !.disposed = TRUE]

\* ProgressBar.onCancellationRequested: this.token?.onCancellationRequested
ProgressBar_onCancellationRequested(bar) == [bar EXCEPT !.hasCallback = TRUE]

\* the percentage itself passed as the increment
ReportIncrement_absolute(bar, percentage) == percentage

\* the increment report() computes for a percentage
ReportIncrement(bar, percentage) == percentage - bar.currentPercentage

\* ProgressBar.report(percentage?, message); hasPct = FALSE is undefined
ProgressBar_report(bar, hasPct, percentage, message) ==
  LET increment == IF hasPct THEN ReportIncrement(bar, percentage) ELSE 0
      reported ==
        [bar EXCEPT
           !.currentPercentage = IF hasPct THEN percentage ELSE @,
           !.reports = Append(@, [message |-> message, hasIncrement |-> hasPct,
                                  increment |-> increment])]
  IN IF hasPct /\ percentage >= 100 THEN ProgressBar_dispose(reported)
     ELSE reported

\* whether ProgressSet.get finds the id in this.bars
HasBar(bs, id) == id \in DOMAIN bs

\* get with the lookup left out: a bar is constructed on every call
ProgressSet_get_alwaysNew(ps, id, title, cancellable) ==
  [bars |-> [i \in DOMAIN ps.bars \cup {id} |->
               IF i = id
                 THEN ProgressBar_new(ps.nextInst + 1, title, cancellable)
                 ELSE ps.bars[i]],
   nextInst |-> ps.nextInst + 1]

\* ProgressSet.get(id, title, cancellable) on [bars, nextInst]: the set after
\* the call; the bar it returns is bars[id] of the result.
ProgressSet_get(ps, id, title, cancellable) ==
  IF ~HasBar(ps.bars, id)
    THEN [bars |-> (id :> ProgressBar_new(ps.nextInst + 1, title, cancellable))
                     @@ ps.bars,
          nextInst |-> ps.nextInst + 1]
    ELSE ps

\* onCancellationRequested reaching no token: the callback is stored only
ProgressSet_onCancellationRequested_unwired(bs) == bs

\* ProgressSet.onCancellationRequested(callback), on the bars
ProgressSet_onCancellationRequested(bs) ==
  [id \in DOMAIN bs |-> ProgressBar_onCancellationRequested(bs[id])]

\* dispose left out of the teardown
ProgressSet_dispose_skipped(bs) == bs

\* ProgressSet.dispose
ProgressSet_dispose(bs) == [id \in DOMAIN bs |-> ProgressBar_dispose(bs[id])]

\* -------------------------------------------------------- handleDiagnostics
\* set that appends to the entries a file has instead of replacing them
RECURSIVE setAll_merging(_, _)
setAll_merging(ds, members) ==
  IF members = <<>> THEN ds
  ELSE LET f == Head(members)[1]
           e == Head(members)[2]
       IN setAll_merging(
            (f :> (IF f \in DOMAIN ds
                     THEN [t |-> "array", v |-> ds[f].v \o e.v] ELSE e)) @@ ds,
            Tail(members))

\* diagnostics.set for every member of the parsed object, in order
RECURSIVE setAll(_, _)
setAll(ds, members) ==
  IF members = <<>> THEN ds
  ELSE setAll((Head(members)[1] :> Head(members)[2]) @@ ds, Tail(members))

\* the loop over the parsed data: for (const fname in data) diagnostics.set(..)
applyDiagnostics(ds, data) ==
  IF ~data.ok THEN [handled |-> FALSE, threw |-> TRUE, diags |-> ds]
  ELSE IF data.val.t = "object"
    THEN [handled |-> TRUE, threw |-> FALSE, diags |-> setAll(ds, data.val.v)]
  ELSE [handled |-> TRUE, threw |-> FALSE, diags |-> ds]

\* handleDiagnostics(line, diagnostics): [handled, threw, diags]
handleDiagnostics(line, hasSink, ds) ==
  IF hasSink
    THEN With(trim(line),
              LAMBDA trimmed :
                With(ReExec(diagExpr, trimmed),
                     LAMBDA diagmatch :
                       IF diagmatch.ok
                         THEN With(JSONparse(GroupText(diagmatch, trimmed, 1)),
                                   LAMBDA data : applyDiagnostics(ds, data))
                         ELSE [handled |-> FALSE, threw |-> FALSE,
                               diags |-> ds]))
    ELSE [handled |-> FALSE, threw |-> FALSE, diags |-> ds]

\* ------------------------------------------------------------- LogStream
Entry(level, text) == [level |-> level, text |-> text]

\* the switch of processLine on m[2]: the channel method that gets the record
LevelOf(name) ==
  CASE name = <<"D", "E", "B", "U", "G">> -> "debug"
    [] name = <<"W", "A", "R", "N", "I", "N", "G">> -> "warn"
    [] name = <<"E", "R", "R", "O", "R">> -> "error"
    [] name = <<"C", "R", "I", "T", "I", "C", "A", "L">> -> "error"
    [] OTHER -> "info"

\* whether processLine finds an escape sequence in a line that is no record
HasSequence(line) == ReExec(LogStream_sequenceExpr, line).ok

\* LogStream.processLine(line): the channel after the call
LogStream_processLine(ch, line) ==
  With(ReExec(LogStream_expr, line),
       LAMBDA m :
         IF m.ok
           THEN Append(ch, Entry(LevelOf(GroupText(m, line, 2)),
                                 GroupText(m, line, 3) \o <<":", " ">>
                                   \o GroupText(m, line, 4)))
           ELSE IF ~HasSequence(line)
                  THEN Append(ch, Entry("append", line))
                  ELSE ch)

\* ------------------------------------------------- channelExec: the router
\* the branch of the callback for a line that barExpr matches
onBarLine(st, line, barmatch) ==
  LET id == parseInt(GroupText(barmatch, line, 1))
      hasPct == HasGroup(barmatch, 3)
      percentage == IF hasPct THEN parseInt(GroupText(barmatch, line, 3)) ELSE 0
      message == GroupText(barmatch, line, 2) \o <<" ", "-", " ">>
                   \o GroupText(barmatch, line, 4) \o <<" ", "[">>
                   \o GroupText(barmatch, line, 5) \o <<"]">>
  IN With(ProgressSet_get([bars |-> st.bars, nextInst |-> st.nextInst],
                          id, <<>>, FALSE),
          LAMBDA got :
            [st EXCEPT
               !.bars = [got.bars EXCEPT
                           ![id] = ProgressBar_report(@, hasPct, percentage,
                                                      message)],
               !.nextInst = got.nextInst])

\* the else branch without its test: a line handleDiagnostics applied is
\* given to the log stream as well
onOtherLine_alsoLogged(st, hasSink, line) ==
  With(handleDiagnostics(line, hasSink, st.diags),
       LAMBDA d :
         IF d.threw THEN [st EXCEPT !.threw = TRUE]
         ELSE [st EXCEPT !.diags = d.diags,
                         !.channel = LogStream_processLine(@, line)])

\* the branch for the other lines: handleDiagnostics, else the log stream
onOtherLine(st, hasSink, line) ==
  With(handleDiagnostics(line, hasSink, st.diags),
       LAMBDA d :
         IF d.threw THEN [st EXCEPT !.threw = TRUE]
         ELSE IF d.handled THEN [st EXCEPT !.diags = d.diags]
         ELSE [st EXCEPT !.channel = LogStream_processLine(@, line)])

\* the callback given to stream.onLine, on the record
\* [bars, nextInst, channel, diags, routed, threw]
onLine(st, hasSink, line) ==
  With(ReExec(barExpr, line),
       LAMBDA barmatch :
         IF barmatch.ok
           THEN onBarLine([st EXCEPT !.routed = Append(@, line)], line,
                          barmatch)
           ELSE onOtherLine([st EXCEPT !.routed = Append(@, line)], hasSink,
                            line))

\* the loop run from the last line to the first
RECURSIVE forEachLine_lastFirst(_, _, _)
forEachLine_lastFirst(st, hasSink, lines) ==
  IF lines = <<>> THEN st
  ELSE With(onLine(st, hasSink, lines[Len(lines)]),
            LAMBDA next :
              IF next.threw THEN next
              ELSE forEachLine_lastFirst(next, hasSink,
                                         SubSeq(lines, 1, Len(lines) - 1)))

\* the for loop of processBuffer: fn on every line, left by an exception of fn
RECURSIVE forEachLine(_, _, _)
forEachLine(st, hasSink, lines) ==
  IF lines = <<>> THEN st
  ELSE With(onLine(st, hasSink, Head(lines)),
            LAMBDA next :
              IF next.threw THEN next
              ELSE forEachLine(next, hasSink, Tail(lines)))

\* ------------------------------------------------------------------ Stream
\* _onExit without the test of this.proc.killed: no code is success
Stream_onExit_nullIsZero(code, killed) ==
  IF code.null THEN 0 ELSE code.code

\* Stream._onExit(code): code is [null, code]
Stream_onExit(code, killed) ==
  IF code.null THEN (IF killed THEN -1 ELSE 0) ELSE code.code

\* Stream.kill: ChildProcess.kill signals a child that has a handle, one that
\* was spawned and has not exited
Stream_kill(p, exited) ==
  IF exited THEN p ELSE [p EXCEPT !.killed = TRUE, !.signals = @ + 1]

\* ------------------------------------------------------------------ inputs
\* the chunks the child writes
\* 1-a: 50%|#| x [t]\n
K_bar50 ==
  <<"1", "-", "a", ":", " ", "5", "0", "%", "|", "#", "|", " ", "x", " ",
    "[", "t", "]", "\n">>

\* 1-a: 100%|#| x [t]\n
K_bar100 ==
  <<"1", "-", "a", ":", " ", "1", "0", "0", "%", "|", "#", "|", " ", "x",
    " ", "[", "t", "]", "\n">>

\* 1-a: 30%|#| x [t]\n
K_bar30 ==
  <<"1", "-", "a", ":", " ", "3", "0", "%", "|", "#", "|", " ", "x", " ",
    "[", "t", "]", "\n">>

\* 2-b: y [t]\n
K_barNoPct ==
  <<"2", "-", "b", ":", " ", "y", " ", "[", "t", "]", "\n">>

\* [12:00:00][PROGRESS] build: compiling - 5/10\n
K_progress ==
  <<"[", "1", "2", ":", "0", "0", ":", "0", "0", "]", "[", "P", "R", "O",
    "G", "R", "E", "S", "S", "]", " ", "b", "u", "i", "l", "d", ":", " ",
    "c", "o", "m", "p", "i", "l", "i", "n", "g", " ", "-", " ", "5", "/",
    "1", "0", "\n">>

\* [12:00:01][PROGRESS] build: compiling - done\n
K_progressDone ==
  <<"[", "1", "2", ":", "0", "0", ":", "0", "1", "]", "[", "P", "R", "O",
    "G", "R", "E", "S", "S", "]", " ", "b", "u", "i", "l", "d", ":", " ",
    "c", "o", "m", "p", "i", "l", "i", "n", "g", " ", "-", " ", "d", "o",
    "n", "e", "\n">>

\* DIAGNOSTICS: {"/a.cpp": [{"message":"x","severity":1}]}\n
K_diagA ==
  <<"D", "I", "A", "G", "N", "O", "S", "T", "I", "C", "S", ":", " ", "{",
    "\"", "/", "a", ".", "c", "p", "p", "\"", ":", " ", "[", "{", "\"", "m",
    "e", "s", "s", "a", "g", "e", "\"", ":", "\"", "x", "\"", ",", "\"",
    "s", "e", "v", "e", "r", "i", "t", "y", "\"", ":", "1", "}", "]", "}",
    "\n">>

\* DIAGNOSTICS: {"/a.cpp": [], "/b.cpp": [2]}\n
K_diagAB ==
  <<"D", "I", "A", "G", "N", "O", "S", "T", "I", "C", "S", ":", " ", "{",
    "\"", "/", "a", ".", "c", "p", "p", "\"", ":", " ", "[", "]", ",", " ",
    "\"", "/", "b", ".", "c", "p", "p", "\"", ":", " ", "[", "2", "]", "}",
    "\n">>

\* random compiler output\n
K_raw ==
  <<"r", "a", "n", "d", "o", "m", " ", "c", "o", "m", "p", "i", "l", "e",
    "r", " ", "o", "u", "t", "p", "u", "t", "\n">>

\* ESC[1mwarningESC[0m\n
K_ansiText ==
  <<"ESC", "[", "1", "m", "w", "a", "r", "n", "i", "n", "g", "ESC", "[",
    "0", "m", "\n">>

\* [12:00:02][ERROR] build: failed\n
K_error ==
  <<"[", "1", "2", ":", "0", "0", ":", "0", "2", "]", "[", "E", "R", "R",
    "O", "R", "]", " ", "b", "u", "i", "l", "d", ":", " ", "f", "a", "i",
    "l", "e", "d", "\n">>

\* 0-a: 100%|#| x [t]\n
K_bar0 ==
  <<"0", "-", "a", ":", " ", "1", "0", "0", "%", "|", "#", "|", " ", "x",
    " ", "[", "t", "]", "\n">>

\* DIAGNOSTICS: {"/2-a.cpp": [{"message":"x [-W]"}]}\n
K_diagBar ==
  <<"D", "I", "A", "G", "N", "O", "S", "T", "I", "C", "S", ":", " ", "{",
    "\"", "/", "2", "-", "a", ".", "c", "p", "p", "\"", ":", " ", "[", "{",
    "\"", "m", "e", "s", "s", "a", "g", "e", "\"", ":", "\"", "x", " ", "[",
    "-", "W", "]", "\"", "}", "]", "}", "\n">>

\* DIAGNOSTICS: {oops\nrandom compiler output\n
K_diagBad ==
  <<"D", "I", "A", "G", "N", "O", "S", "T", "I", "C", "S", ":", " ", "{",
    "o", "o", "p", "s", "\n">> \o K_raw

Chunks ==
  {K_bar50, K_bar30, K_bar100, K_barNoPct, K_progress, K_progressDone, K_diagA,
   K_diagAB, K_raw, K_ansiText, K_error, K_bar0, K_diagBar, K_diagBad}

\* the code and signal of the "exit" event: a code, or null when a signal
\* ended the child
ExitCodes ==
  {[null |-> TRUE, code |-> 0], [null |-> FALSE, code |-> 0],
   [null |-> FALSE, code |-> 1]}

\* the calls of channelExec: build passes ext.buildDiagnosics, configure none
Calls ==
  {[command |-> "configure", parameters |-> <<>>, hasSink |-> FALSE],
   [command |-> "code", parameters |-> <<"build">>, hasSink |-> TRUE]}

\* what an earlier invocation left in the process-wide channel and collection
StaleEntry == Entry("append", <<"o", "l", "d">>)

StaleDiags == (<<"/", "a", ".", "c", "p", "p">> :> [t |-> "array", v |-> <<>>])

NoBars == [id \in {} |-> 0]

\* no child yet: the fields of the ChildProcess a Stream will hold
\* ------------------------------------------------ the configuration
\* An optional value of the program: undefined, or a value.
Undefined == [defined |-> FALSE]

Def(v) == [defined |-> TRUE, value |-> v]

\* No call of DanConfig is in progress and none has been made.
NoChain ==
  [op |-> "", arg |-> "", before |-> Undefined, children |-> 0, fired |-> 0,
   errors |-> 0, messages |-> 0, loaded |-> FALSE, queried |-> {},
   status |-> "none"]

\* DanConfig after its constructor: no settings, no options, no cached
\* context, no toolchains; nothing on disk yet and no call in progress.
\* dan.config.json: absent, unparsable, or the JSON text of a Settings value.
NoFile == [exists |-> FALSE]

BadFile == [exists |-> TRUE, parses |-> FALSE]

File(v) == [exists |-> TRUE, parses |-> TRUE, value |-> v]

DanConfig_new ==
  [file |-> NoFile, toolchainsFile |-> FALSE, settings |-> Undefined,
   options |-> <<>>, cachedContext |-> Undefined, toolchainsConfig |-> FALSE,
   buildFiles |-> <<>>, stack |-> <<>>, chain |-> NoChain, made |-> 0,
   edits |-> 0]

\* The provider after construction: an empty configurationCache, no call of
\* canProvideConfiguration in progress, nothing returned yet.
ConfigurationProvider_new ==
  [configurationCache |-> <<>>, pending |-> <<>>, queries |-> 0,
   kept |-> 0, answer |-> Undefined, provided |-> Undefined]

\* Dan after its constructor and loadWorkspaceState with an empty workspace
\* state: no targets, no launch target, no build targets.
Dan_new ==
  [targets |-> <<>>, launchTarget |-> Undefined, buildTargets |-> <<>>,
   context |-> Undefined, task |-> Undefined, selectedItems |-> {},
   fired |-> [launchTargetChanged |-> 0, buildTargetsChanged |-> 0,
              testsChanged |-> 0],
   launched |-> <<>>, made |-> 0]

NoProcess ==
  [killed |-> FALSE, signals |-> 0, spawnfail |-> FALSE, errored |-> FALSE,
   exited |-> FALSE, exitCode |-> [null |-> TRUE, code |-> 0]]

Init ==
  /\ pc = "idle"
  /\ call = [command |-> "", parameters |-> <<>>, hasSink |-> FALSE,
             cancellable |-> FALSE]
  /\ bars = NoBars
  /\ onCancel = FALSE
  /\ nextInst = 0
  /\ channel = <<StaleEntry>>
  /\ notifications = <<>>
  /\ diags = StaleDiags
  /\ received = <<>>
  /\ routed = <<>>
  /\ uncaught = 0
  /\ nData = 0
  /\ calls = <<>>
  /\ codeData = <<>>
  /\ execs = <<>>
  /\ proc = NoProcess
  /\ rc = 0
  /\ cancelRequested = FALSE
  /\ outcome = "pending"
  /\ danConfig = DanConfig_new
  /\ provider = ConfigurationProvider_new
  /\ danExt = Dan_new

commandName(c) == IF c.command = "code" THEN c.parameters[1] ELSE c.command

\* cp.spawn, in the Stream constructor: the child, or one that could not be
\* started (no such executable or directory)
Stream_new(spawns) == [NoProcess EXCEPT !.spawnfail = ~spawns]

\* channel.clear(): the output channel without its entries
channel_clear(ch) == <<>>

\* the start-up without diagnostics?.clear()
diagnostics_clear_skipped(ds, hasSink) == ds

\* diagnostics?.clear(): the collection without its entries, when there is one
diagnostics_clear(ds, hasSink) == IF hasSink THEN [f \in {} |-> 0] ELSE ds

\* channelExec up to its await: lines 331-362
Start(c, cancellable, spawns) ==
  /\ pc = "idle"
  /\ proc' = Stream_new(spawns)
  /\ LET title == <<"Executing", commandName(c)>> \o c.parameters
         got == ProgressSet_get([bars |-> NoBars, nextInst |-> nextInst],
                                0, title, cancellable)
         wired == ProgressSet_onCancellationRequested(got.bars)
     IN /\ bars' = [wired EXCEPT
                      ![0] = ProgressBar_report(@, TRUE, 0,
                                                <<"running...">>)]
        /\ nextInst' = got.nextInst
  /\ call' = [command |-> c.command, parameters |-> c.parameters,
              hasSink |-> c.hasSink, cancellable |-> cancellable]
  /\ onCancel' = TRUE
  /\ channel' = channel_clear(channel)
                  \o <<Entry("info", <<"executing:", commandName(c)>>),
                       Entry("trace", <<"command args:">> \o c.parameters)>>
  /\ diags' = diagnostics_clear(diags, c.hasSink)
  /\ pc' = "streaming"
  /\ UNCHANGED <<danConfig, provider, danExt, execs, codeData, notifications, received, routed, uncaught, nData, calls,
                 rc, cancelRequested, outcome>>

\* a "data" event of stdout or stderr: processBuffer(chunk, isError, fn)
OnData(chunk) ==
  /\ pc \in {"streaming", "settled"}
  /\ ~proc.spawnfail
  /\ nData < MaxChunks
  /\ \E lines \in {processBuffer(chunk)} :
       \E st \in {forEachLine([bars |-> bars, nextInst |-> nextInst,
                                channel |-> channel, diags |-> diags,
                                routed |-> routed, threw |-> FALSE],
                               call.hasSink, lines)} :
         /\ bars' = st.bars
         /\ nextInst' = st.nextInst
         /\ channel' = st.channel
         /\ diags' = st.diags
         /\ routed' = st.routed
         /\ uncaught' = IF st.threw THEN uncaught + 1 ELSE uncaught
  /\ received' = received \o chunk
  /\ nData' = nData + 1
  /\ UNCHANGED <<danConfig, provider, danExt, execs, codeData, pc, call, onCancel, notifications, calls, proc, rc,
                 cancelRequested, outcome, danConfig, provider, danExt>>

\* the user cancels the main bar's notification: its token fires, once, and
\* runs the callback registered on it, () => stream.kill()
Cancel ==
  /\ pc = "streaming"
  /\ bars[0].cancellable /\ ~bars[0].disposed
  /\ ~cancelRequested
  /\ cancelRequested' = TRUE
  /\ proc' = IF bars[0].hasCallback THEN Stream_kill(proc, proc.spawnfail)
              ELSE proc
  /\ UNCHANGED <<danConfig, provider, danExt, execs, codeData, pc, call, bars, onCancel, nextInst, channel, notifications,
                 diags, received, routed, uncaught, nData, calls, rc, outcome>>

\* the "exit" event: the listener of finished() resolves with _onExit(code)
OnExit(code) ==
  /\ pc = "streaming"
  /\ ~proc.spawnfail
  /\ rc' = Stream_onExit(code, proc.killed)
  /\ proc' = [proc EXCEPT !.exited = TRUE, !.exitCode = code]
  /\ pc' = "exited"
  /\ UNCHANGED <<danConfig, provider, danExt, execs, codeData, call, bars, onCancel, nextInst, channel, notifications,
                 diags, received, routed, uncaught, nData, calls,
                 cancelRequested, outcome, danConfig, provider, danExt>>

\* the "error" event of a child that could not be spawned: the Stream has no
\* listener for it, so emit throws it; no "exit" event follows
OnError ==
  /\ pc = "streaming"
  /\ proc.spawnfail /\ ~proc.errored
  /\ proc' = [proc EXCEPT !.errored = TRUE]
  /\ uncaught' = uncaught + 1
  /\ UNCHANGED <<danConfig, provider, danExt, execs, codeData, pc, call, bars, onCancel, nextInst, channel,
                 notifications, diags, received, routed, nData, calls, rc,
                 cancelRequested, outcome, danConfig, provider, danExt>>

\* channelExec after the await: lines 363-365
Teardown ==
  /\ pc = "exited"
  /\ bars' = ProgressSet_dispose(
               [bars EXCEPT
                  ![0] = ProgressBar_report(@, TRUE, 100,
                           IF rc = 0 THEN <<"succeed">> ELSE <<"failed">>)])
  /\ pc' = "reporting"
  /\ UNCHANGED <<danConfig, provider, danExt, execs, codeData, call, onCancel, nextInst, channel, notifications, diags,
                 received, routed, uncaught, nData, calls, proc, rc,
                 cancelRequested, outcome, danConfig, provider, danExt>>

\* lines 367-369: what channelExec reports before it throws
FailureReport(ch, ns, name) ==
  [channel |-> Append(ch, Entry("error", <<"command:", name, "failed">>)),
   notifications |-> Append(ns, <<"dan:", name, "failed", "see output log">>)]

\* the throw left out: a failed command resolves
OutcomeOf_swallowed(code) == "resolved"

\* the outcome for the value finished() resolved with: lines 366-373
OutcomeOf(code) == IF code # 0 THEN "rejected" ELSE "resolved"

\* channelExec's last lines, 366-373
Settle ==
  /\ pc = "reporting"
  /\ IF OutcomeOf(rc) = "rejected"
       THEN LET r == FailureReport(channel, notifications, commandName(call))
            IN channel' = r.channel /\ notifications' = r.notifications
       ELSE /\ channel' = Append(channel,
                            Entry("info", <<"command:", commandName(call),
                                            "succeed">>))
            /\ UNCHANGED notifications
  /\ outcome' = OutcomeOf(rc)
  /\ pc' = "settled"
  /\ UNCHANGED <<danConfig, provider, danExt, execs, codeData, call, bars, onCancel, nextInst, diags, received, routed,
                 uncaught, nData, calls, proc, rc, cancelRequested>>

Next ==
  \/ \E c \in Calls, cancellable \in BOOLEAN, spawns \in BOOLEAN :
       Start(c, cancellable, spawns)
  \/ \E chunk \in Chunks : OnData(chunk)
  \/ Cancel
  \/ \E code \in ExitCodes : OnExit(code)
  \/ OnError
  \/ Teardown
  \/ Settle

Spec == Init /\ [][Next]_vars

\* what the event loop guarantees: a pending "error" event is emitted, and the
\* continuation of the await and the rest of channelExec run once the exit
\* event was handled. That the child exits is not guaranteed.
FairSpec == Spec /\ WF_vars(OnError) /\ WF_vars(Teardown) /\ WF_vars(Settle)

\* ------------------------------------------- the line splitter on its own
\* channelExec fed every chunk of at most MaxChunkLen characters
SplitAlphabet == {"a", "b", "\n"}

SplitChunks ==
  UNION {[1..n -> SplitAlphabet] : n \in 1..MaxChunkLen}

SplitNext ==
  \/ Start(CHOOSE c \in Calls : ~c.hasSink, TRUE, TRUE)
  \/ \E chunk \in SplitChunks : OnData(chunk)

SplitSpec == Init /\ [][SplitNext]_vars

\* ------------------------------------------------ processBuffer on a chunk
\* the first data event of an invocation, for every chunk of letters, blanks
\* and line terminators of at most LineChunkLen characters
LineAlphabet == {"a", "b", " ", "\r", "\n"}

LineChunks == UNION {[1..n -> LineAlphabet] : n \in 1..LineChunkLen}

LineNext ==
  \/ Start(CHOOSE c \in Calls : ~c.hasSink, TRUE, TRUE)
  \/ nData = 0 /\ \E chunk \in LineChunks : OnData(chunk)

LineSpec == Init /\ [][LineNext]_vars

\* ------------------------------------------------ the lines of the log
\* channelExec fed the lines that only LogStream.processLine deals with
\* [12:00:00][PROGRESS] build: oops\n
K_progressBad ==
  <<"[", "1", "2", ":", "0", "0", ":", "0", "0", "]", "[", "P", "R", "O",
    "G", "R", "E", "S", "S", "]", " ", "b", "u", "i", "l", "d", ":", " ",
    "o", "o", "p", "s", "\n">>

\* [12:00:00][STATUS] build: x\n
K_status ==
  <<"[", "1", "2", ":", "0", "0", ":", "0", "0", "]", "[", "S", "T", "A",
    "T", "U", "S", "]", " ", "b", "u", "i", "l", "d", ":", " ", "x", "\n">>

\* ESC[0m\n
K_ansiOnly ==
  <<"ESC", "[", "0", "m", "\n">>

LogChunks == {K_progressBad, K_status, K_ansiOnly, K_ansiText, K_raw, K_error}

LogNext ==
  \/ \E c \in Calls : Start(c, TRUE, TRUE)
  \/ \E chunk \in LogChunks : OnData(chunk)
  \/ \E code \in ExitCodes : OnExit(code)
  \/ Teardown
  \/ Settle

LogSpec == Init /\ [][LogNext]_vars

\* ---------------------------------------------- a ProgressSet on its own
\* the calls of the public methods of a new ProgressSet, in any order
TrackerIds == {0, 1}

TrackerPercentages == {30, 50, 100}

\* the record of a call: the bar it returned or acted on, after the call, and
\* the number of bars constructed by then
Called(op, id, bs, made) ==
  Append(calls, [op |-> op, id |-> id, inst |-> bs[id].inst,
                 live |-> ~bs[id].disposed, made |-> made])

\* bars.get(id)
TGet(id) ==
  /\ Len(calls) < MaxCalls
  /\ \E got \in {ProgressSet_get([bars |-> bars, nextInst |-> nextInst],
                                  id, <<>>, FALSE)} :
       /\ bars' = got.bars
       /\ nextInst' = got.nextInst
       /\ calls' = Called("get", id, got.bars, got.nextInst)
  /\ UNCHANGED <<danConfig, provider, danExt, execs, codeData, pc, call, onCancel, channel, notifications, diags, received,
                 routed, uncaught, nData, proc, rc, cancelRequested, outcome>>

\* bars.get(id).report(percentage, message) on a bar got before
TReport(id, hasPct, percentage) ==
  /\ Len(calls) < MaxCalls
  /\ HasBar(bars, id)
  /\ bars' = [bars EXCEPT
               ![id] = ProgressBar_report(@, hasPct, percentage, <<"m">>)]
  /\ calls' = Called("report", id, bars', nextInst)
  /\ UNCHANGED <<danConfig, provider, danExt, execs, codeData, pc, call, onCancel, nextInst, channel, notifications, diags,
                 received, routed, uncaught, nData, proc, rc, cancelRequested,
                 outcome>>

\* bars.dispose()
TDispose ==
  /\ Len(calls) < MaxCalls
  /\ bars # NoBars
  /\ bars' = ProgressSet_dispose(bars)
  /\ calls' = Called("dispose", CHOOSE id \in DOMAIN bars : TRUE, bars',
                      nextInst)
  /\ UNCHANGED <<danConfig, provider, danExt, execs, codeData, pc, call, onCancel, nextInst, channel, notifications, diags,
                 received, routed, uncaught, nData, proc, rc, cancelRequested,
                 outcome>>

TrackerNext ==
  \/ \E id \in TrackerIds : TGet(id)
  \/ \E id \in TrackerIds, hasPct \in BOOLEAN, p \in TrackerPercentages :
       TReport(id, hasPct, p)
  \/ TDispose

TrackerSpec == Init /\ [][TrackerNext]_vars

\* ------------------------------------------------------------ codeCommand
\* ["t"]\n : the JSON a code command prints
K_targets == <<"[", "\"", "t", "\"", "]", "\n">>

\* DIAGNOSTICS: {oops\n["t"]\n
K_diagBadTargets ==
  <<"D", "I", "A", "G", "N", "O", "S", "T", "I", "C", "S", ":", " ", "{",
    "o", "o", "p", "s", "\n">> \o K_targets

CodeChunks ==
  {K_targets, K_diagA, K_diagAB, K_diagBad, K_diagBadTargets, K_raw}

\* the functions of the code interface the extension calls
CodeFunctions == {"get-targets", "get-tests"}

\* the callback codeCommand gives to stream.onLine, on the record
\* [diags, codeData, routed, threw]
codeCommand_onLine(st, line) ==
  With(handleDiagnostics(line, TRUE, st.diags),
       LAMBDA d :
         IF d.threw THEN [st EXCEPT !.routed = Append(@, line), !.threw = TRUE]
         ELSE IF d.handled
           THEN [st EXCEPT !.routed = Append(@, line), !.diags = d.diags]
         ELSE [st EXCEPT !.routed = Append(@, line), !.codeData = @ \o line])

\* the for loop of processBuffer with that callback
RECURSIVE codeCommand_forEachLine(_, _)
codeCommand_forEachLine(st, lines) ==
  IF lines = <<>> THEN st
  ELSE With(codeCommand_onLine(st, Head(lines)),
            LAMBDA next :
              IF next.threw THEN next
              ELSE codeCommand_forEachLine(next, Tail(lines)))

\* codeCommand up to its await: the Stream, data = '', the onLine callback
CodeStart(fn, spawns) ==
  /\ pc = "idle"
  /\ proc' = Stream_new(spawns)
  /\ call' = [command |-> "code", parameters |-> <<fn>>, hasSink |-> TRUE,
              cancellable |-> FALSE]
  /\ codeData' = <<>>
  /\ pc' = "streaming"
  /\ UNCHANGED <<danConfig, provider, danExt, execs, bars, onCancel, nextInst, channel, notifications, diags,
                 received, routed, uncaught, nData, calls, rc, cancelRequested,
                 outcome>>

\* a "data" event of the code command's child
CodeOnData(chunk) ==
  /\ pc \in {"streaming", "settled"}
  /\ ~proc.spawnfail
  /\ nData < MaxChunks
  /\ \E st \in {codeCommand_forEachLine(
                   [diags |-> diags, codeData |-> codeData, routed |-> routed,
                    threw |-> FALSE], processBuffer(chunk))} :
       /\ diags' = st.diags
       /\ codeData' = st.codeData
       /\ routed' = st.routed
       /\ uncaught' = IF st.threw THEN uncaught + 1 ELSE uncaught
  /\ received' = received \o chunk
  /\ nData' = nData + 1
  /\ UNCHANGED <<danConfig, provider, danExt, execs, pc, call, bars, onCancel, nextInst, channel, notifications,
                 calls, proc, rc, cancelRequested, outcome>>

\* the outcome of codeCommand: it throws for a code that is not 0 and for
\* data that JSON.parse rejects
codeCommand_outcome(code, text) ==
  IF code # 0 THEN "rejected"
  ELSE IF JSONparse(text).ok THEN "resolved" ELSE "rejected"

\* codeCommand after the await
CodeSettle ==
  /\ pc = "exited"
  /\ outcome' = codeCommand_outcome(rc, codeData)
  /\ pc' = "settled"
  /\ UNCHANGED <<danConfig, provider, danExt, execs, codeData, call, bars, onCancel, nextInst, channel,
                 notifications, diags, received, routed, uncaught, nData, calls,
                 proc, rc, cancelRequested>>

CodeNext ==
  \/ \E fn \in CodeFunctions, spawns \in BOOLEAN : CodeStart(fn, spawns)
  \/ \E chunk \in CodeChunks : CodeOnData(chunk)
  \/ \E code \in ExitCodes : OnExit(code)
  \/ OnError
  \/ CodeSettle

CodeSpec == Init /\ [][CodeNext]_vars

\* ------------------------------------- the invocations of the extension
\* The handlers registered by registerCommands and the build-file watcher call
\* channelExec whenever they are triggered; each invocation has its own child,
\* its own ProgressSet and the process-wide channel and collection.
ExecChunks == {K_bar50, K_bar100, K_barNoPct}

\* lines 340-345: the ProgressSet of an invocation, with its main bar
channelExec_bars(c, cancellable) ==
  LET title == <<"Executing", commandName(c)>> \o c.parameters
      got == ProgressSet_get([bars |-> NoBars, nextInst |-> 0], 0, title,
                             cancellable)
      wired == ProgressSet_onCancellationRequested(got.bars)
  IN [bars |-> [wired EXCEPT
                  ![0] = ProgressBar_report(@, TRUE, 0, <<"running...">>)],
      nextInst |-> got.nextInst]

\* one ProgressSet for all the invocations, the first one's
barsOwner_first(i) == 1

\* the invocation whose ProgressSet the onLine callback of invocation i
\* closes over: `const bars = new ProgressSet()` is local to the call
barsOwner(i) == i

\* channelExec(c.command, c.parameters, ...) up to its await
ExecStart(c) ==
  /\ Len(execs) < MaxExecs
  /\ \E ps \in {channelExec_bars(c, TRUE)} :
       execs' = Append(execs,
                  [call |-> c, pc |-> "streaming", bars |-> ps.bars,
                   nextInst |-> ps.nextInst, routed |-> <<>>,
                   outcome |-> "pending"])
  /\ channel' = channel_clear(channel)
                  \o <<Entry("info", <<"executing:", commandName(c)>>),
                       Entry("trace", <<"command args:">> \o c.parameters)>>
  /\ diags' = diagnostics_clear(diags, c.hasSink)
  /\ UNCHANGED <<danConfig, provider, danExt, pc, call, bars, onCancel, nextInst, notifications, received,
                 routed, uncaught, nData, calls, codeData, proc, rc,
                 cancelRequested, outcome, danConfig, provider, danExt>>

\* a command of registerCommands run by the user: build, configure, ...
Command(c) == ExecStart(c)

\* DanConfig.buildFileChanged: the watcher saw a build file change and calls
\* doConfigure, which calls channelExec('configure', ...)
BuildFileChanged == ExecStart(CHOOSE c \in Calls : c.command = "configure")

\* a "data" event of the child of invocation i
ExecOnData(i, chunk) ==
  /\ i \in 1..Len(execs)
  /\ execs[i].pc = "streaming"
  /\ nData < MaxChunks
  /\ \E o \in {barsOwner(i)} :
       \E st \in {forEachLine([bars |-> execs[o].bars,
                                nextInst |-> execs[o].nextInst,
                                channel |-> channel, diags |-> diags,
                                routed |-> execs[i].routed, threw |-> FALSE],
                               execs[i].call.hasSink, processBuffer(chunk))} :
         /\ execs' = [[execs EXCEPT ![i].routed = st.routed]
                        EXCEPT ![o].bars = st.bars, ![o].nextInst = st.nextInst]
         /\ channel' = st.channel
         /\ diags' = st.diags
         /\ uncaught' = IF st.threw THEN uncaught + 1 ELSE uncaught
  /\ nData' = nData + 1
  /\ UNCHANGED <<danConfig, provider, danExt, pc, call, bars, onCancel, nextInst, notifications, received,
                 routed, calls, codeData, proc, rc, cancelRequested, outcome>>

\* the "exit" event of the child of invocation i and the rest of channelExec,
\* lines 362-373
ExecOnExit(i, code) ==
  /\ i \in 1..Len(execs)
  /\ execs[i].pc = "streaming"
  /\ \E o \in {barsOwner(i)}, r \in {Stream_onExit(code, FALSE)} :
       /\ execs' =
            [[execs EXCEPT ![i].pc = "settled", ![i].outcome = OutcomeOf(r)]
               EXCEPT ![o].bars =
                 ProgressSet_dispose(
                   [@ EXCEPT
                      ![0] = ProgressBar_report(@, TRUE, 100,
                               IF r = 0 THEN <<"succeed">>
                               ELSE <<"failed">>)])]
       /\ IF OutcomeOf(r) = "rejected"
            THEN LET f == FailureReport(channel, notifications,
                                         commandName(execs[i].call))
                 IN channel' = f.channel /\ notifications' = f.notifications
            ELSE /\ channel' = Append(channel,
                                 Entry("info",
                                       <<"command:", commandName(execs[i].call),
                                         "succeed">>))
                 /\ UNCHANGED notifications
  /\ UNCHANGED <<danConfig, provider, danExt, pc, call, bars, onCancel, nextInst, diags, received, routed,
                 uncaught, nData, calls, codeData, proc, rc, cancelRequested,
                 outcome>>

ExecsNext ==
  \/ \E c \in Calls : Command(c)
  \/ BuildFileChanged
  \/ \E i \in 1..MaxExecs, chunk \in ExecChunks : ExecOnData(i, chunk)
  \/ \E i \in 1..MaxExecs, code \in ExitCodes : ExecOnExit(i, code)

ExecsSpec == Init /\ [][ExecsNext]_vars

\* ================================================================ claims
Last(s) == s[Len(s)]

\* a chunk of one line, without its newline
LineOf(chunk) == SubSeq(chunk, 1, Len(chunk) - 1)

AllDisposed(bs) == \A id \in DOMAIN bs : bs[id].disposed

Settles == outcome = "pending" /\ outcome' # "pending"

\* the step routes exactly one line
RoutesOne == Len(routed') = Len(routed) + 1

FailureEntry == Entry("error", <<"command:", commandName(call), "failed">>)

\* C1: channelExec settles only once the exit event was handled, also after a
\* cancellation: it resolves iff the value of finished() is 0 and rejects iff
\* it is not, and when it rejects the error entry is in the log and the error
\* notification was shown.
C1_SettlesOnExitCode ==
  /\ outcome # "pending" => pc = "settled"
  /\ pc = "settled" => outcome = (IF rc = 0 THEN "resolved" ELSE "rejected")
  /\ outcome = "rejected" =>
       /\ \E k \in 1..Len(channel) : channel[k] = FailureEntry
       /\ notifications # <<>>

C1_Witness == outcome = "rejected" /\ cancelRequested /\ rc = -1

\* C2: in the step in which channelExec resolves or rejects, every progress
\* bar created so far is disposed.
C2_DisposedWhenSettled == [][Settles => AllDisposed(bars')]_vars

C2_Witness ==
  /\ outcome = "rejected"
  /\ \E id \in DOMAIN bars : id # 0 /\ bars[id].currentPercentage = 50
  /\ AllDisposed(bars)

\* C3: once cancellation was requested while streaming, the child (one that
\* was spawned) has been sent exactly one termination signal, and when the
\* invocation then settles every progress bar is disposed.
C3_CancelKillsOnce ==
  /\ []((cancelRequested /\ ~proc.spawnfail) => proc.signals = 1)
  /\ [][(cancelRequested /\ Settles) => AllDisposed(bars')]_vars

C3_Witness ==
  /\ cancelRequested /\ outcome # "pending" /\ proc.signals = 1
  /\ Cardinality(DOMAIN bars) > 1

\* the lines of a text made of newline-terminated lines
NewlineAt(r) == {j \in 1..Len(r) : r[j] = "\n"}

LinesOf(r) ==
  [k \in 1..Cardinality(NewlineAt(r)) |->
     LET end == CHOOSE j \in NewlineAt(r) :
                  Cardinality({j2 \in NewlineAt(r) : j2 <= j}) = k
         before == {j2 \in NewlineAt(r) : j2 < end}
     IN SubSeq(r, IF before = {} THEN 1 ELSE Max(before) + 1, end - 1)]

\* r is N newline-terminated non-empty lines
NewlineTerminated(r) ==
  r = <<>> \/ (Last(r) = "\n" /\ \A k \in 1..Len(LinesOf(r)) : LinesOf(r)[k] # <<>>)

\* C4: when the chunks received so far make up N newline-terminated non-empty
\* lines, the splitter has emitted exactly these N lines, in order, wherever
\* the chunk boundaries fall.
C4_LinesSurviveChunking ==
  NewlineTerminated(received) => routed = LinesOf(received)

L_progress == LineOf(K_progress)

L_progressDone == LineOf(K_progressDone)

\* the bars that show percentage p with the message label
BarsShowing(p, label) ==
  {id \in DOMAIN bars :
     /\ bars[id].currentPercentage = p
     /\ bars[id].reports # <<>>
     /\ Last(bars[id].reports).message = label}

Compiling == <<"c", "o", "m", "p", "i", "l", "i", "n", "g">>

\* C5: after the line "[12:00:00][PROGRESS] build: compiling - 5/10" a progress
\* bar shows 50 percent with the message "compiling", and after the line
\* "... build: compiling - done" that follows it, a bar with that message is
\* disposed.
C5_ProgressLineDrivesBar ==
  /\ (routed # <<>> /\ Last(routed) = L_progress) =>
       BarsShowing(50, Compiling) # {}
  /\ (Len(routed) >= 2 /\ routed[Len(routed) - 1] = L_progress
        /\ Last(routed) = L_progressDone) =>
       \E id \in DOMAIN bars :
         /\ bars[id].disposed
         /\ bars[id].reports # <<>>
         /\ Last(bars[id].reports).message = Compiling

FileA == <<"/", "a", ".", "c", "p", "p">>

FileB == <<"/", "b", ".", "c", "p", "p">>

JArray(items) == [t |-> "array", v |-> items]

\* [{"message":"x","severity":1}]
EntriesA ==
  JArray(<<[t |-> "object",
            v |-> <<<<<<"m", "e", "s", "s", "a", "g", "e">>,
                      [t |-> "string", v |-> <<"x">>]>>,
                    <<<<"s", "e", "v", "e", "r", "i", "t", "y">>,
                      [t |-> "number", v |-> 1]>>>>]>>)

\* [2]
EntriesB == JArray(<<[t |-> "number", v |-> 2]>>)

L_diagA == LineOf(K_diagA)

L_diagAB == LineOf(K_diagAB)

\* the JSON object a diagnostics line of the inputs carries: file -> entries
Batch(line) ==
  IF line = L_diagA THEN (FileA :> EntriesA)
  ELSE (FileA :> JArray(<<>>)) @@ (FileB :> EntriesB)

\* C6: a step that applies a diagnostics line sets every file of its JSON
\* object to exactly the entries given for it, whatever the file had before,
\* adds no other file and leaves every other file's diagnostics as they were.
C6_DiagnosticsReplacePerFile ==
  [][\A line \in {L_diagA, L_diagAB} :
       (call.hasSink /\ routed' = Append(routed, line)) =>
         /\ DOMAIN diags' = DOMAIN diags \cup DOMAIN Batch(line)
         /\ \A f \in DOMAIN Batch(line) : diags'[f] = Batch(line)[f]
         /\ \A f \in DOMAIN diags \ DOMAIN Batch(line) : diags'[f] = diags[f]]_vars

C6_Witness ==
  /\ call.hasSink
  /\ routed = <<L_diagAB, L_diagA>>
  /\ diags = (FileA :> EntriesA) @@ (FileB :> EntriesB)

\* the line matches none of barExpr, the diagnostics marker and LogStream._expr
NoGrammar(line) ==
  /\ ~ReExec(barExpr, line).ok
  /\ ~ReExec(diagExpr, trim(line)).ok
  /\ ~ReExec(LogStream_expr, line).ok

\* C7: a step that routes a line matching none of the three grammars appends
\* that very line to the log and changes no progress bar and no diagnostics.
C7_UnmatchedLineForwarded ==
  [][(RoutesOne /\ NoGrammar(Last(routed'))) =>
       /\ channel' = Append(channel, Entry("append", Last(routed')))
       /\ bars' = bars
       /\ diags' = diags]_vars

\* the id and the percentage (100 when absent: no report below 100) of a bar line
BarId(line) == parseInt(GroupText(ReExec(barExpr, line), line, 1))

BarBelow100(line) ==
  LET m == ReExec(barExpr, line) IN
  m.ok /\ (HasGroup(m, 3) => parseInt(GroupText(m, line, 3)) < 100)

\* C8: a step that routes a progress line (below 100 percent) for an id whose
\* bar is disposed leaves that id with a live bar that is another instance.
C8_ReentryCreatesNewBar ==
  [][(RoutesOne /\ BarBelow100(Last(routed'))
        /\ BarId(Last(routed')) \in DOMAIN bars
        /\ bars[BarId(Last(routed'))].disposed) =>
       /\ ~bars'[BarId(Last(routed'))].disposed
       /\ bars'[BarId(Last(routed'))].inst # bars[BarId(Last(routed'))].inst]_vars

\* C9: no report of any progress bar carries an increment below 0.
C9_NoNegativeIncrement ==
  \A id \in DOMAIN bars :
    \A k \in 1..Len(bars[id].reports) :
      bars[id].reports[k].hasIncrement => bars[id].reports[k].increment >= 0

\* two successive get calls with the same id, the bar live after the first
SuccessiveGets(k) ==
  /\ calls[k].op = "get" /\ calls[k + 1].op = "get"
  /\ calls[k].id = calls[k + 1].id
  /\ calls[k].live

\* C10: of two successive get(id) calls on a live bar, the second returns the
\* instance the first returned and constructs no bar.
C10_GetIdempotentWhileLive ==
  \A k \in 1..(Len(calls) - 1) :
    SuccessiveGets(k) =>
      /\ calls[k + 1].inst = calls[k].inst
      /\ calls[k + 1].made = calls[k].made

C10_Witness ==
  \E k \in 1..(Len(calls) - 1) :
    /\ SuccessiveGets(k)
    /\ k > 1 /\ calls[k - 1].op = "report"

\* the destinations a step wrote to: the progress bars, the diagnostics
\* collection, the log
Written ==
  {d \in {"progress", "diagnostics", "log"} :
     \/ d = "progress" /\ bars' # bars
     \/ d = "diagnostics" /\ diags' # diags
     \/ d = "log" /\ channel' # channel}

\* C11: a step that routes one line writes to at most one of the progress
\* bars, the diagnostics collection and the log, and the log gets at most one
\* entry.
C11_AtMostOneRoute ==
  [][RoutesOne =>
       /\ Cardinality(Written) <= 1
       /\ Len(channel') <= Len(channel) + 1]_vars

C11_Witness ==
  /\ call.hasSink
  /\ routed = <<L_diagA, LineOf(K_bar50)>>
  /\ diags = (FileA :> EntriesA)
  /\ 1 \in DOMAIN bars /\ bars[1].currentPercentage = 50
  /\ Len(channel) = 2

\* the line carries the diagnostics marker and a payload that parses
CarriesDiagnostics(line) ==
  With(ReExec(diagExpr, trim(line)),
       LAMBDA m : m.ok /\ JSONparse(GroupText(m, trim(line), 1)).ok)

\* C12: with a sink, a step that routes a line carrying "DIAGNOSTICS: <json>"
\* applies its payload to the diagnostics collection and changes no progress
\* bar and no log entry, whatever else the line matches.
C12_DiagnosticsFirst ==
  [][(call.hasSink /\ RoutesOne /\ CarriesDiagnostics(Last(routed'))) =>
       /\ diags' = handleDiagnostics(Last(routed'), TRUE, diags).diags
       /\ bars' = bars
       /\ channel' = channel]_vars

\* C13: with a sink, a step that receives the chunk of a diagnostics line with
\* a payload that is no JSON, followed by a raw line, lets no exception out of
\* the listener, applies no diagnostics and routes both lines of the chunk.
C13_MalformedDiagnosticsRecovered ==
  [][(call.hasSink /\ received' = received \o K_diagBad) =>
       /\ uncaught' = uncaught
       /\ diags' = diags
       /\ routed' = routed \o processBuffer(K_diagBad)]_vars

\* C14: when the child could not be spawned, channelExec eventually rejects
\* with the error notification shown, and it never resolves.
C14_SpawnFailureRejects ==
  /\ [](proc.spawnfail => outcome # "resolved")
  /\ [](proc.spawnfail => <>(outcome = "rejected" /\ notifications # <<>>))

\* C15: once the exit event was handled, the value finished() resolved with
\* is -1 when the event had no code and the Stream had killed the child, 0
\* when it had no code and the child was not killed, and the event's code
\* otherwise; the settled outcome is the one of that value.
C15_NullExitCode ==
  proc.exited =>
    /\ (proc.exitCode.null /\ proc.killed) => rc = -1
    /\ (proc.exitCode.null /\ ~proc.killed) => rc = 0
    /\ ~proc.exitCode.null => rc = proc.exitCode.code
    /\ pc = "settled" =>
         outcome = (IF rc = 0 THEN "resolved" ELSE "rejected")

C15_Witness ==
  /\ pc = "settled" /\ proc.exited
  /\ proc.exitCode.null /\ proc.killed
  /\ outcome = "rejected"

\* C16: once a cancellation callback is registered with the ProgressSet,
\* every bar of the set that is not disposed has the callback on its token,
\* the bars created after the registration included.
C16_CallbackOnEveryBar ==
  onCancel =>
    \A id \in DOMAIN bars : ~bars[id].disposed => bars[id].hasCallback

\* C17: while channelExec awaits the exit event, the main bar, the one it
\* created under id 0, is not disposed, so at least one bar is live.
C17_MainBarLiveWhileStreaming ==
  pc = "streaming" =>
    /\ ~bars[0].disposed
    /\ \E id \in DOMAIN bars : ~bars[id].disposed

\* C18: a bar that is disposed gets no further report: in every step, an id
\* of a disposed bar either maps to another instance afterwards or its bar
\* has the reports it had.
C18_NoReportAfterDispose ==
  [][\A id \in DOMAIN bars :
       (bars[id].disposed /\ id \in DOMAIN bars') =>
         \/ bars'[id].inst # bars[id].inst
         \/ bars'[id].reports = bars[id].reports]_vars

\* the entries of a channel
Entries(ch) == {ch[k] : k \in 1..Len(ch)}

IsPrefix(s, t) == Len(s) <= Len(t) /\ SubSeq(t, 1, Len(s)) = s

\* C19: the step that starts channelExec, before any line is routed, leaves
\* the log without the entries it had and the diagnostics collection, when
\* one is given, empty; no later step of the invocation removes an entry of
\* the log or a file of the collection.
C19_ClearedOnceAtStart ==
  [][/\ (pc = "idle" /\ pc' = "streaming") =>
          /\ routed' = <<>>
          /\ Entries(channel') \cap Entries(channel) = {}
          /\ call'.hasSink => DOMAIN diags' = {}
     /\ pc # "idle" =>
          /\ IsPrefix(channel, channel')
          /\ DOMAIN diags \subseteq DOMAIN diags']_vars

C19_Witness ==
  /\ call.hasSink
  /\ routed = <<L_diagA, LineOf(K_raw)>>
  /\ diags = (FileA :> EntriesA)
  /\ StaleEntry \notin Entries(channel)
  /\ Last(channel) = Entry("append", LineOf(K_raw))

\* C20: the step that starts an invocation that applies diagnostics to the
\* shared collection, codeCommand as well as channelExec with a sink, leaves
\* the collection empty, and while the invocation runs the collection holds
\* nothing an earlier run left.
C20_DiagnosticsClearedAtStart ==
  /\ [][(pc = "idle" /\ pc' = "streaming" /\ call'.hasSink) =>
          DOMAIN diags' = {}]_vars
  /\ []((pc # "idle" /\ call.hasSink /\ routed = <<>>) => DOMAIN diags = {})

\* the invocations that have not settled
ActiveExecs == {i \in 1..Len(execs) : execs[i].pc = "streaming"}

\* C21: at most one channelExec invocation is active at any time.
C21_OneInvocationAtATime == Cardinality(ActiveExecs) <= 1

\* C22: a step that routes a line of one invocation's child changes no
\* progress bar of another invocation.
C22_BarsPerInvocation ==
  [][\A i, j \in 1..Len(execs) :
       (i # j /\ execs'[i].routed # execs[i].routed) =>
         execs'[j].bars = execs[j].bars]_vars

C22_Witness ==
  /\ Cardinality(ActiveExecs) = 2
  /\ 1 \in DOMAIN execs[1].bars /\ 1 \in DOMAIN execs[2].bars
  /\ execs[1].bars[1].currentPercentage = 50
  /\ execs[2].bars[1].disposed

\* the chunk a step received and the lines it routed
ChunkOfStep == SubSeq(received', Len(received) + 1, Len(received'))

RoutedInStep == SubSeq(routed', Len(routed) + 1, Len(routed'))

\* C23: a step that receives a chunk routes its lines after all the lines of
\* the earlier chunks and in their order within the chunk: all of them, or
\* the first ones when the callback threw.
C23_RoutedInArrivalOrder ==
  [][received' # received =>
       /\ IsPrefix(routed, routed')
       /\ IsPrefix(RoutedInStep, LinesOf(ChunkOfStep))
       /\ uncaught' = uncaught => RoutedInStep = LinesOf(ChunkOfStep)]_vars

C23_Witness ==
  /\ ~call.hasSink
  /\ routed = <<LineOf(K_bar50)>> \o LinesOf(K_diagBad)
  /\ Len(LinesOf(K_diagBad)) = 2

IsTerminator(c) == c \in {"\n", "\r"}

\* where the maximal terminator-free runs of a text start, and where the run
\* that starts at i ends
RunStarts(r) ==
  {i \in 1..Len(r) : ~IsTerminator(r[i]) /\ (i = 1 \/ IsTerminator(r[i - 1]))}

RunEnd(r, i) ==
  Max({j \in i..Len(r) : \A k \in i..j : ~IsTerminator(r[k])})

\* the run that starts at i without the blanks around it
Stripped(r, i) ==
  LET inked == {k \in i..RunEnd(r, i) : r[k] # " "}
  IN IF inked = {} THEN <<>> ELSE SubSeq(r, Min(inked), Max(inked))

\* the runs of a text that are not blank, stripped, in order
ExpectedLines(r) ==
  LET kept == {i \in RunStarts(r) : Stripped(r, i) # <<>>}
  IN [k \in 1..Cardinality(kept) |->
        Stripped(r, CHOOSE i \in kept :
                      Cardinality({i2 \in kept : i2 <= i}) = k)]

\* C24: for every chunk, the lines processBuffer hands on are the pieces of
\* the chunk between \r\n, \n and \r, the last piece included, without the
\* blanks around them and without the empty ones; no line is empty or starts
\* or ends with white space.
C24_SplitsAndTrims ==
  nData = 1 =>
    /\ routed = ExpectedLines(received)
    /\ \A k \in 1..Len(routed) :
         /\ routed[k] # <<>>
         /\ routed[k][1] \notin {" ", "\r", "\n"}
         /\ Last(routed[k]) \notin {" ", "\r", "\n"}

C24_Witness ==
  /\ received = <<"a", "\r", "b">>
  /\ routed = <<<<"a">>, <<"b">>>>

L_progressBad == LineOf(K_progressBad)

\* C25: a step that routes "[12:00:00][PROGRESS] build: oops", a PROGRESS
\* record whose message is no "<label> - <n>/<d>", changes no progress bar,
\* lets no exception out and adds nothing to the log but, at most, a debug
\* entry.
C25_MalformedProgressDropped ==
  [][(RoutesOne /\ Last(routed') = L_progressBad) =>
       /\ bars' = bars
       /\ uncaught' = uncaught
       /\ \/ channel' = channel
          \/ \E e \in {Last(channel')} :
               e.level = "debug" /\ channel' = Append(channel, e)]_vars

L_status == LineOf(K_status)

\* C26: a step that routes "[12:00:00][STATUS] build: x" adds no entry to the
\* log and changes no progress bar and no diagnostics.
C26_StatusConsumedSilently ==
  [][(RoutesOne /\ Last(routed') = L_status) =>
       /\ channel' = channel
       /\ bars' = bars
       /\ diags' = diags]_vars

\* the positions of a line inside an escape sequence ESC [ ... letter
InSequence(line) ==
  {k \in 1..Len(line) :
     \E i \in 1..k :
       /\ line[i] = "ESC" /\ i < Len(line) /\ line[i + 1] = "["
       /\ \A j \in (i + 2)..(k - 1) : line[j] \notin Letter}

\* the line without its escape sequences
StripAnsi(line) ==
  LET kept == {k \in 1..Len(line) : k \notin InSequence(line)}
  IN [n \in 1..Cardinality(kept) |->
        line[CHOOSE k \in kept : Cardinality({k2 \in kept : k2 <= k}) = n]]

\* C27: a step that routes a line matching no grammar adds nothing to the log
\* when the line is made of escape sequences only, and otherwise appends the
\* line without its escape sequences.
C27_OnlyPureAnsiDropped ==
  [][(RoutesOne /\ NoGrammar(Last(routed'))) =>
       channel' = IF StripAnsi(Last(routed')) = <<>> THEN channel
                  ELSE Append(channel,
                              Entry("append", StripAnsi(Last(routed'))))]_vars

\* C28: once channelExec has settled, no step changes a progress bar, the
\* diagnostics or the log: no line of the child is routed after the outcome
\* was reported.
C28_NothingRoutedAfterSettle ==
  [][pc = "settled" =>
       /\ bars' = bars
       /\ diags' = diags
       /\ channel' = channel
       /\ routed' = routed]_vars

\* the sum of the increments of a bar's reports
RECURSIVE SumIncrements(_)
SumIncrements(reports) ==
  IF reports = <<>> THEN 0
  ELSE (IF Head(reports).hasIncrement THEN Head(reports).increment ELSE 0)
         + SumIncrements(Tail(reports))

\* C29: the increments reported for a bar add up to its current percentage,
\* and to 100 for the main bar once channelExec has made its last report.
C29_IncrementsSumToPercentage ==
  /\ \A id \in DOMAIN bars :
       SumIncrements(bars[id].reports) = bars[id].currentPercentage
  /\ pc = "reporting" => SumIncrements(bars[0].reports) = 100

C29_Witness ==
  /\ pc = "reporting"
  /\ routed = <<LineOf(K_bar50), LineOf(K_bar30)>>
  /\ bars[1].currentPercentage = 30
  /\ Len(bars[0].reports) = 2

\* the lines of a sequence that do not carry the diagnostics marker, joined
RECURSIVE JoinOthers(_)
JoinOthers(lines) ==
  IF lines = <<>> THEN <<>>
  ELSE (IF ReExec(diagExpr, Head(lines)).ok THEN <<>> ELSE Head(lines))
         \o JoinOthers(Tail(lines))

\* C30: codeCommand settles only once the exit event was handled; it rejects
\* when the value of finished() is not 0 and when the lines received that are
\* no diagnostics lines, joined in arrival order, are no JSON text, and
\* resolves with the value of that text otherwise.
C30_CodeCommandOutcome ==
  /\ [](outcome # "pending" => proc.exited)
  /\ [][(pc = "exited" /\ pc' = "settled") =>
          \E expected \in {JSONparse(JoinOthers(LinesOf(received)))} :
            /\ outcome' = IF rc # 0 \/ ~expected.ok THEN "rejected"
                          ELSE "resolved"
            /\ outcome' = "resolved" => JSONparse(codeData) = expected]_vars

\* ----------------------------------------------------------- DanConfig
\* The context names and toolchains of the configurations on disk, the keys
\* of a Settings object in the order the tool writes them, and the option
\* lists get-options answers with.
ContextNames == {"a", "b"}

Toolchains == {"gcc"}

SettingsKeys == <<"source_path", "build_path", "current_context", "settings">>

OptionResults == {<<"o">>}

BuildFileResults == {<<"dan-build.py">>}

Settings_of(current, names, toolchain) ==
  [current_context |-> current,
   settings |-> [n \in names |-> [toolchain |-> toolchain]]]

ConfigFiles ==
  {File(Settings_of(current, names, toolchain)) :
     current \in ContextNames, names \in (SUBSET ContextNames) \ {{}},
     toolchain \in Toolchains}

\* A frame of the call in progress: the function, the await it is suspended
\* at, its context or name argument, its boolean argument, its loop index
\* (for doConfigure: the number of children launched before it began).
Frame(fn, at, arg, flag, i) ==
  [fn |-> fn, at |-> at, arg |-> arg, flag |-> flag, i |-> i]

Top(c) == c.stack[Len(c.stack)]

Push(c, f) == [c EXCEPT !.stack = Append(@, f)]

Pop(c) == [c EXCEPT !.stack = SubSeq(@, 1, Len(@) - 1)]

SetTop(c, at, i) ==
  [c EXCEPT !.stack[Len(c.stack)].at = at, !.stack[Len(c.stack)].i = i]

\* Spawning a child command (channelExec or codeCommand).
Launch(c) == [c EXCEPT !.chain.children = @ + 1]

contextNames(c) ==
  IF c.settings.defined THEN DOMAIN c.settings.value.settings ELSE {}

\* What the currentContext getter would build from the stored values.
Context_of(c) ==
  LET name == c.settings.value.current_context
  IN  [name |-> name,
       settings |-> IF name \in DOMAIN c.settings.value.settings
                      THEN Def(c.settings.value.settings[name])
                      ELSE Undefined,
       options |-> IF name \in DOMAIN c.options THEN c.options[name]
                                                ELSE <<>>]

\* _currentContext after the currentContext getter has run.
currentContext_cache(c) ==
  IF ~c.settings.defined THEN c.cachedContext
  ELSE IF \/ ~c.cachedContext.defined
          \/ c.cachedContext.value.name # c.settings.value.current_context
         THEN Def(Context_of(c))
         ELSE c.cachedContext

\* The value the currentContext getter returns.
currentContext(c) ==
  IF ~c.settings.defined THEN Undefined ELSE currentContext_cache(c)

\* contextChangeEvent.fire(this.currentContext)
contextChangeEvent_fire(c) ==
  [c EXCEPT !.cachedContext = currentContext_cache(c), !.chain.fired = @ + 1]

RECURSIVE Return(_)
\* The function of the top frame returns: its caller continues up to its
\* next await.
Return(c) ==
  LET d == Pop(c)
  IN  IF d.stack = <<>> THEN [d EXCEPT !.chain.status = "returned"]
      ELSE CASE Top(d).fn = "doConfigure" -> Return(d)
             [] Top(d).fn = "setCurrentContext" ->
                  Return(contextChangeEvent_fire(d))
             [] Top(d).fn = "reload" ->
                  Launch(SetTop(d, "get-buildfiles", 0))
             [] Top(d).fn = "options" -> Launch(SetTop(d, "get-options", 0))
             [] Top(d).fn = "configureContext" ->
                  IF Top(d).at = "options" THEN SetTop(d, "pick", 0)
                                           ELSE Return(d)

\* The end of reload, after its try block: the toolchains are read once.
reload_toolchains(c) ==
  IF c.toolchainsConfig THEN Return(c)
  ELSE IF c.toolchainsFile THEN SetTop(c, "toolchains", 0)
  ELSE Return([c EXCEPT !.chain.messages = @ + 1])

TryBlock == {"read", "get-options", "setCurrentContext", "get-buildfiles"}

RECURSIVE Throw(_)
\* An exception leaves the top frame: it unwinds to the nearest try block,
\* which is reload's, or rejects the call.
Throw(c) ==
  IF c.stack = <<>> THEN [c EXCEPT !.chain.status = "threw"]
  ELSE IF Top(c).fn = "reload" /\ Top(c).at \in TryBlock
         THEN reload_toolchains([c EXCEPT !.chain.errors = @ + 1])
         ELSE Throw(Pop(c))

reload(c, updateContext) ==
  LET d == Push([c EXCEPT !.chain.queried = {}, !.chain.loaded = FALSE],
                Frame("reload", "read", "", updateContext, 0))
  IN  IF c.file.exists THEN d ELSE reload_toolchains(d)

setCurrentContext(c, name, reloads) ==
  IF name \notin contextNames(c) THEN Throw(c)
  ELSE IF ~c.settings.defined THEN Throw(c)
  ELSE Launch(Push([c EXCEPT !.settings.value.current_context = name],
                   Frame("setCurrentContext", "set", name, reloads, 0)))

\* The reload argument setCurrentContext is called with from reload.
reload_setCurrentContext_reloads_same(updateContext) == updateContext

reload_setCurrentContext_reloads(updateContext) == FALSE

doConfigure(c, context) ==
  IF ~context.defined /\ ~c.settings.defined THEN Throw(c)
  ELSE Launch(Push(c, Frame("doConfigure", "configure",
                            IF context.defined THEN context.value
                            ELSE c.settings.value.current_context,
                            FALSE, c.chain.children)))

defaultBuildSettings == [toolchain |-> "undefined"]

buildSettings(c, context) ==
  LET d == IF c.settings.defined THEN c
           ELSE [c EXCEPT !.settings =
                   Def([current_context |-> "undefined", settings |-> <<>>])]
  IN  IF context \in DOMAIN d.settings.value.settings THEN d
      ELSE [d EXCEPT !.settings.value.settings =
              (context :> defaultBuildSettings) @@ @]

\* The in-memory name of the current context: settings.current_context.
CurrentName(c) ==
  IF c.settings.defined THEN Def(c.settings.value.current_context)
                        ELSE Undefined

\* The calls of DanConfig methods that are followed, and the runs of the tool
\* from a terminal.
MaxConfigCalls == 2

MaxEdits == 1

\* A call of a DanConfig method from the extension begins.
Begin(c, op, arg) ==
  [c EXCEPT !.chain = [NoChain EXCEPT !.op = op, !.arg = arg,
                                      !.before = CurrentName(c),
                                      !.status = "running"],
            !.made = @ + 1]

Idle == danConfig.stack = <<>> /\ danConfig.made < MaxConfigCalls

At(fn, at) ==
  /\ danConfig.stack # <<>>
  /\ Top(danConfig).fn = fn
  /\ Top(danConfig).at = at

ConfigUnchanged ==
  UNCHANGED <<pc, call, bars, onCancel, nextInst, channel, notifications,
              diags, received, routed, uncaught, nData, calls, execs,
              codeData, proc, rc, cancelRequested, outcome, provider, danExt>>

\* Dan.configure calls configuration.reload().
CallReload ==
  /\ Idle
  /\ danConfig' = reload(Begin(danConfig, "reload", ""), TRUE)
  /\ ConfigUnchanged

\* Dan.selectCurrentContext, or any caller of the public method.
CallSetCurrentContext(name) ==
  /\ Idle
  /\ danConfig' =
       setCurrentContext(Begin(danConfig, "setCurrentContext", name), name,
                         TRUE)
  /\ ConfigUnchanged

\* Dan.configure and buildFileChanged call configuration.doConfigure().
CallDoConfigure ==
  /\ Idle
  /\ danConfig' = doConfigure(Begin(danConfig, "doConfigure", ""), Undefined)
  /\ ConfigUnchanged

\* uiConfiguration and newConfiguration call configureContext(context).
CallConfigureContext(context) ==
  /\ Idle
  /\ \E c \in {buildSettings(Begin(danConfig, "configureContext", context),
                             context)} :
       danConfig' =
         IF c.settings.value.settings[context].toolchain = "undefined"
           THEN Launch(Push(c, Frame("configureContext", "get-toolchains",
                                     context, FALSE, 0)))
           ELSE Push(c, Frame("configureContext", "pick", context, FALSE, 0))
  /\ ConfigUnchanged

\* get-toolchains has exited and the user has answered the toolchain picker.
ToolchainPicked(ok, toolchain) ==
  /\ At("configureContext", "get-toolchains")
  /\ danConfig' =
       IF ~ok THEN Throw(danConfig)
       ELSE IF ~toolchain.defined THEN Return(danConfig)
       ELSE SetTop([danConfig EXCEPT
                      !.settings.value.settings[Top(danConfig).arg].toolchain
                        = toolchain.value],
                   "pick", 0)
  /\ ConfigUnchanged

\* The user picks "options" in the context menu, or leaves it with escape.
\* The options job loads the options of a context that has none.
PickItem(item) ==
  /\ At("configureContext", "pick")
  /\ \E context \in {Top(danConfig).arg} :
       danConfig' =
         IF item = "options"
           THEN IF context \in DOMAIN danConfig.options THEN danConfig
                ELSE doConfigure(
                       Push(SetTop(danConfig, "options", 0),
                            Frame("options", "doConfigure", context, FALSE,
                                  0)),
                       Def(context))
           ELSE doConfigure(SetTop(danConfig, "doConfigure", 0), Def(context))
  /\ ConfigUnchanged

\* The options job's get-options has exited; the option list is left with
\* escape.
OptionsLoaded(ok, result) ==
  /\ At("options", "get-options")
  /\ danConfig' =
       IF ok
         THEN Return([danConfig EXCEPT
                        !.options = (Top(danConfig).arg :> result) @@ @])
         ELSE Throw(danConfig)
  /\ ConfigUnchanged

\* The file the configure command leaves for a context: the contexts on disk
\* and the configured one, which becomes current. Without a context argument
\* the file is left as it is.
Configured(c, context) ==
  IF context \notin ContextNames THEN c.file
  ELSE File(Settings_of(context,
                        (IF c.file.exists /\ c.file.parses
                           THEN DOMAIN c.file.value.settings ELSE {})
                          \cup {context},
                        CHOOSE t \in Toolchains : TRUE))

\* doConfigure's configure command has exited; on success the tool has
\* written the configuration file.
ConfigureExited(ok) ==
  /\ At("doConfigure", "configure")
  /\ danConfig' =
       IF ok THEN reload(SetTop([danConfig EXCEPT !.file =
                                   Configured(danConfig, Top(danConfig).arg)],
                                "reload", Top(danConfig).i),
                         TRUE)
             ELSE Throw(danConfig)
  /\ ConfigUnchanged

\* reload's readAll has settled: the file is parsed and the first get-options
\* is launched.
FileRead ==
  /\ At("reload", "read")
  /\ danConfig' =
       IF danConfig.file.exists /\ danConfig.file.parses
         THEN Launch(SetTop([danConfig EXCEPT
                               !.settings = Def(danConfig.file.value),
                               !.chain.loaded = TRUE,
                               !.chain.queried = {SettingsKeys[1]}],
                            "get-options", 1))
         ELSE Throw(danConfig)
  /\ ConfigUnchanged

\* One get-options of reload's loop has exited.
OptionsExited(ok, result) ==
  /\ At("reload", "get-options")
  /\ \E i \in {Top(danConfig).i} :
       \E c \in {[danConfig EXCEPT
                    !.options = (SettingsKeys[i] :> result) @@ @]} :
         danConfig' =
           IF ~ok THEN Throw(danConfig)
           ELSE IF i < Len(SettingsKeys)
             THEN Launch(SetTop([c EXCEPT !.chain.queried =
                                            @ \cup {SettingsKeys[i + 1]}],
                                "get-options", i + 1))
           ELSE IF Top(c).flag
             THEN setCurrentContext(
                    SetTop(c, "setCurrentContext", 0),
                    c.settings.value.current_context,
                    reload_setCurrentContext_reloads(Top(c).flag))
           ELSE Launch(SetTop(c, "get-buildfiles", 0))
  /\ ConfigUnchanged

\* The set context command has exited; on success the tool has written the
\* name to the configuration file.
SetExited(ok) ==
  /\ At("setCurrentContext", "set")
  /\ \E c \in {IF danConfig.file.exists /\ danConfig.file.parses
                 THEN [danConfig EXCEPT !.file.value.current_context =
                                          Top(danConfig).arg]
                 ELSE danConfig} :
       danConfig' =
         IF ~ok THEN Throw(danConfig)
         ELSE IF Top(c).flag THEN reload(SetTop(c, "reload", 0), FALSE)
         ELSE Return(contextChangeEvent_fire(c))
  /\ ConfigUnchanged

\* reload's get-buildfiles has exited.
BuildFilesExited(ok, result) ==
  /\ At("reload", "get-buildfiles")
  /\ danConfig' =
       IF ok THEN reload_toolchains([danConfig EXCEPT !.buildFiles = result])
             ELSE Throw(danConfig)
  /\ ConfigUnchanged

\* reload's read of toolchains.json has settled.
ToolchainsRead(ok) ==
  /\ At("reload", "toolchains")
  /\ danConfig' =
       IF ok THEN Return([danConfig EXCEPT !.toolchainsConfig = TRUE])
             ELSE Return([danConfig EXCEPT !.chain.errors = @ + 1])
  /\ ConfigUnchanged

\* Some reader (the status bar, Dan.currentContext) reads the getter.
ReadCurrentContext ==
  /\ danConfig' = [danConfig EXCEPT !.cachedContext =
                                      currentContext_cache(danConfig)]
  /\ ConfigUnchanged

\* The tool is run from a terminal: it rewrites or removes the configuration
\* file, or dan scan-toolchains writes toolchains.json.
Terminal(file, toolchains) ==
  /\ danConfig.stack = <<>>
  /\ danConfig.edits < MaxEdits
  /\ danConfig' = [danConfig EXCEPT !.file = file,
                                    !.toolchainsFile = @ \/ toolchains,
                                    !.edits = @ + 1]
  /\ ConfigUnchanged

ChildExits ==
  \/ \E ok \in BOOLEAN, toolchain \in {Undefined} \cup {Def(t) : t \in Toolchains} :
       ToolchainPicked(ok, toolchain)
  \/ \E ok \in BOOLEAN, result \in OptionResults : OptionsLoaded(ok, result)
  \/ \E ok \in BOOLEAN : ConfigureExited(ok)
  \/ FileRead
  \/ \E ok \in BOOLEAN, result \in OptionResults : OptionsExited(ok, result)
  \/ \E ok \in BOOLEAN : SetExited(ok)
  \/ \E ok \in BOOLEAN, result \in BuildFileResults :
       BuildFilesExited(ok, result)
  \/ \E ok \in BOOLEAN : ToolchainsRead(ok)

ConfigNext ==
  \/ CallReload
  \/ \E name \in ContextNames : CallSetCurrentContext(name)
  \/ CallDoConfigure
  \/ \E context \in ContextNames : CallConfigureContext(context)
  \/ \E item \in {"options", "escape"} : PickItem(item)
  \/ ChildExits
  \/ ReadCurrentContext
  \/ \E file \in ConfigFiles \cup {NoFile, BadFile}, toolchains \in BOOLEAN :
       Terminal(file, toolchains)

ConfigSpec == Init /\ [][ConfigNext]_vars

\* Every child that was launched exits, and every file read settles.
FairConfigSpec == ConfigSpec /\ WF_vars(ChildExits)

\* ----------------------------------------------------------------- C31
\* C31: whenever a call of setCurrentContext fails (unknown name, no settings
\* loaded, or a set context command that exits non-zero), the in-memory
\* current context is the one it was when the call began and no
\* context-changed event has been fired.
C31_FailedSetKeepsContext ==
  (danConfig.chain.op = "setCurrentContext" /\ danConfig.chain.status = "threw")
    => /\ CurrentName(danConfig) = danConfig.chain.before
       /\ danConfig.chain.fired = 0

\* ----------------------------------------------------------------- C32
\* C32: whenever settings are loaded and no call is in progress, the context
\* the currentContext getter returns has the name settings.current_context,
\* the build settings stored for that name and the options stored for that
\* name.
C32_CurrentContextNeverStale ==
  (danConfig.settings.defined /\ danConfig.stack = <<>>)
    => currentContext(danConfig) = Def(Context_of(danConfig))

\* ----------------------------------------------------------------- C36
\* C36: when a reload has completed without an error, the options were
\* queried for exactly the context names of the loaded settings map, and the
\* options of each of them are stored.
C36_OptionsForEveryContext ==
  (/\ danConfig.chain.op = "reload"
   /\ danConfig.chain.status = "returned"
   /\ danConfig.chain.errors = 0
   /\ danConfig.chain.loaded)
    => /\ danConfig.chain.queried = contextNames(danConfig)
       /\ contextNames(danConfig) \subseteq DOMAIN danConfig.options

\* ----------------------------------------------------------------- C34
\* The frames of doConfigure on the stack of the call in progress.
DoConfigureFrames ==
  {i \in 1..Len(danConfig.stack) : danConfig.stack[i].fn = "doConfigure"}

\* The children a doConfigure launches: configure, one get-options for each
\* key of the settings, set context and get-buildfiles.
MaxChildren == Len(SettingsKeys) + 3

\* C34: the calls among doConfigure, reload and setCurrentContext nest at most
\* three deep, a doConfigure launches at most MaxChildren child commands, and
\* once its children exit it returns.
C34_DoConfigureTerminates ==
  /\ [](Len(danConfig.stack) <= 5)
  /\ [](\A i \in DoConfigureFrames :
          /\ Len(danConfig.stack) - i <= 2
          /\ danConfig.chain.children - danConfig.stack[i].i <= MaxChildren)
  /\ [](DoConfigureFrames # {} => <>(DoConfigureFrames = {}))
  /\ [](danConfig.chain.op \in {"reload", "setCurrentContext", "doConfigure"}
          => <>(danConfig.stack = <<>>))

\* A doConfigure that launched all its children has returned.
C34_Witness ==
  /\ danConfig.chain.op = "doConfigure"
  /\ danConfig.chain.status = "returned"
  /\ danConfig.chain.children = MaxChildren

\* ------------------------------------------- the cpptools provider
\* The source files cpptools asks about, as file URIs, and the paths the
\* tool reports configurations for.
SourcePaths == {<<"/", "a">>, <<"/", "b">>}

Uri_file(path) == [scheme |-> "file", path |-> path]

Uris == {Uri_file(p) : p \in SourcePaths}

fsPath(uri) == uri.path

\* A SourceFileConfigurationItem: the path and the configuration, of which
\* the tool may report one revision or another.
Revisions == {"r1", "r2"}

ConfigurationItems ==
  {[uri |-> p, configuration |-> r] : p \in SourcePaths, r \in Revisions}

\* The canProvideConfiguration calls in flight at once, and the tool queries
\* that are followed.
MaxPending == 2

MaxQueries == 3

\* The answers of get-source-configuration: up to MaxItems items.
MaxItems == 2

SourceConfigurations ==
  UNION {[1..n -> ConfigurationItems] : n \in 0..MaxItems}

\* The URI lists provideConfigurations is asked for.
Requests == UNION {[1..n -> Uris] : n \in 0..MaxItems}

\* getCacheItem with a string or with a Uri: the index of the first item of
\* the path, 0 for undefined.
getCacheItem(cache, path) ==
  IF \E i \in 1..Len(cache) : cache[i].uri = path
    THEN Min({i \in 1..Len(cache) : cache[i].uri = path})
    ELSE 0

\* The loop of updateCache without the look-up: every item is pushed.
updateCache_alwaysPush(cache, configs) == cache \o configs

RECURSIVE updateCache(_, _)
\* The loop of updateCache over the answer of the tool.
updateCache(cache, configs) ==
  IF configs = <<>> THEN cache
  ELSE updateCache(IF getCacheItem(cache, Head(configs).uri) = 0
                     THEN Append(cache, Head(configs))
                     ELSE cache,
                   Tail(configs))

\* The times the loop of updateCache finds the item cached already.
RECURSIVE updateCache_kept(_, _)
updateCache_kept(cache, configs) ==
  IF configs = <<>> THEN 0
  ELSE IF getCacheItem(cache, Head(configs).uri) = 0
    THEN updateCache_kept(Append(cache, Head(configs)), Tail(configs))
    ELSE 1 + updateCache_kept(cache, Tail(configs))

\* getCacheItems answering with the cached items in the order of the cache.
getCacheItems_cacheOrder(cache, uris) ==
  SelectSeq(cache, LAMBDA item : \E i \in 1..Len(uris) :
                                   fsPath(uris[i]) = item.uri)

RECURSIVE getCacheItems(_, _)
getCacheItems(cache, uris) ==
  IF uris = <<>> THEN <<>>
  ELSE (IF getCacheItem(cache, fsPath(Head(uris))) = 0 THEN <<>>
        ELSE <<cache[getCacheItem(cache, fsPath(Head(uris)))]>>)
       \o getCacheItems(cache, Tail(uris))

ProviderUnchanged ==
  UNCHANGED <<pc, call, bars, onCancel, nextInst, channel, notifications,
              diags, received, routed, uncaught, nData, calls, execs,
              codeData, proc, rc, cancelRequested, outcome, danConfig,
              danExt>>

\* canProvideConfiguration up to its await: true for a cached URI, else the
\* tool is queried.
CanProvideConfiguration(uri) ==
  /\ provider' =
       IF getCacheItem(provider.configurationCache, fsPath(uri)) # 0
         THEN [provider EXCEPT !.answer = Def(TRUE)]
         ELSE [provider EXCEPT !.pending = Append(@, uri),
                               !.queries = @ + 1]
  /\ \/ getCacheItem(provider.configurationCache, fsPath(uri)) # 0
     \/ /\ Len(provider.pending) < MaxPending
        /\ provider.queries < MaxQueries
  /\ ProviderUnchanged

\* The query of the k-th call in flight has exited: updateCache's loop runs
\* and canProvideConfiguration answers, or the call rejects.
SourceConfigurationExited(k, ok, configs) ==
  /\ k \in 1..Len(provider.pending)
  /\ \E cache \in {IF ok THEN updateCache(provider.configurationCache, configs)
                         ELSE provider.configurationCache} :
       provider' =
         [provider EXCEPT
            !.configurationCache = cache,
            !.kept = IF ok THEN Min({1, @ + updateCache_kept(
                                             provider.configurationCache,
                                             configs)})
                           ELSE @,
            !.pending = SubSeq(@, 1, k - 1) \o SubSeq(@, k + 1, Len(@)),
            !.answer = IF ok
                         THEN Def(getCacheItem(cache,
                                               fsPath(provider.pending[k]))
                                  # 0)
                         ELSE Undefined]
  /\ ProviderUnchanged

\* Dan.notifyUpdated calls resetCache.
ResetCache ==
  /\ provider' = [provider EXCEPT !.configurationCache = <<>>]
  /\ ProviderUnchanged

ProvideConfigurations(uris) ==
  /\ provider' =
       [provider EXCEPT !.provided =
          Def([uris |-> uris,
               items |-> getCacheItems(provider.configurationCache, uris)])]
  /\ ProviderUnchanged

ProviderNext ==
  \/ \E uri \in Uris : CanProvideConfiguration(uri)
  \/ \E k \in 1..MaxPending, ok \in BOOLEAN, configs \in SourceConfigurations :
       SourceConfigurationExited(k, ok, configs)
  \/ ResetCache
  \/ \E uris \in Requests : ProvideConfigurations(uris)

ProviderSpec == Init /\ [][ProviderNext]_vars

\* ----------------------------------------------------------------- C33
\* C33: the configuration cache never holds two entries for the same file
\* path, whatever calls of canProvideConfiguration (also several in flight
\* for one URI) and resetCache were made.
C33_NoDuplicateCacheEntries ==
  \A i, j \in 1..Len(provider.configurationCache) :
    provider.configurationCache[i].uri = provider.configurationCache[j].uri
      => i = j

\* A call whose query found its item cached by another call has answered,
\* and a call for a cached URI is still in flight.
C33_Witness ==
  /\ provider.kept > 0
  /\ provider.answer = Def(TRUE)
  /\ Len(provider.configurationCache) = 2
  /\ \E k \in 1..Len(provider.pending) :
       getCacheItem(provider.configurationCache,
                    fsPath(provider.pending[k])) # 0

\* ----------------------------------------------------------------- C39
\* The requested URIs that have a cached item, in request order.
CachedRequests(cache, uris) ==
  SelectSeq(uris, LAMBDA uri : \E i \in 1..Len(cache) :
                                 cache[i].uri = fsPath(uri))

\* C39: provideConfigurations answers with one item for each requested URI
\* that has a cached configuration, in request order, each being the cached
\* item of that URI; it queries the tool for nothing and leaves the cache as
\* it is.
C39_ProvidesCachedItemsOnly ==
  [][provider'.provided # provider.provided =>
       \E uris \in {provider'.provided.value.uris},
          items \in {provider'.provided.value.items},
          cache \in {provider.configurationCache} :
         /\ Len(items) = Len(CachedRequests(cache, uris))
         /\ \A n \in 1..Len(items) :
              /\ items[n].uri = fsPath(CachedRequests(cache, uris)[n])
              /\ \E i \in 1..Len(cache) : cache[i] = items[n]
         /\ provider'.configurationCache = cache
         /\ provider'.queries = provider.queries
         /\ provider'.pending = provider.pending]_vars

\* A request of an uncached URI followed by a cached one was answered with
\* the one cached item.
C39_Witness ==
  /\ provider.provided.defined
  /\ Len(provider.provided.value.uris) = 2
  /\ Len(provider.provided.value.items) = 1
  /\ Len(provider.configurationCache) = 1
  /\ provider.provided.value.items[1] = provider.configurationCache[1]
  /\ fsPath(provider.provided.value.uris[2]) = provider.configurationCache[1].uri

\* ---------------------------------------------------------------- Dan
\* The targets get-targets reports: an executable and a library of context a.
T_x == [fullname |-> <<"a", ".", "x">>, executable |-> TRUE]

T_y == [fullname |-> <<"a", ".", "y">>, executable |-> FALSE]

T_z == [fullname |-> <<"a", ".", "z">>, executable |-> TRUE]

TargetLists == {<<>>, <<T_x>>, <<T_y, T_x>>, <<T_z, T_y>>}

\* The handler invocations of Dan that are followed.
MaxDanCalls == 4

\* String.prototype.replace with a string pattern and '': the first
\* occurrence of the pattern is removed.
replace(s, pattern) ==
  LET found == {i \in 1..(Len(s) - Len(pattern) + 1) :
                  SubSeq(s, i, i + Len(pattern) - 1) = pattern}
  IN  IF found = {} THEN s
      ELSE SubSeq(s, 1, Min(found) - 1)
             \o SubSeq(s, Min(found) + Len(pattern), Len(s))

\* The id of a target, undefined without a current context.
getTargetId(d, target) ==
  IF d.context.defined
    THEN Def(replace(target.fullname, <<d.context.value, ".">>))
    ELSE Undefined

\* The targets whose id is the stored launch target id, by index.
launchTarget_found(d) ==
  {i \in 1..Len(d.targets) : getTargetId(d, d.targets[i]) = d.launchTarget}

\* The launchTarget getter: targets.find(...), the first match or undefined.
launchTarget(d) ==
  IF launchTarget_found(d) = {} THEN Undefined
  ELSE Def(d.targets[Min(launchTarget_found(d))])

buildTargets(d) ==
  SelectSeq(d.targets,
            LAMBDA t : \E i \in 1..Len(d.buildTargets) :
                         d.buildTargets[i] = getTargetId(d, t))

\* The order of the characters of the target names.
CharOrder == <<".", "a", "x", "y", "z">>

CharRank(c) == CHOOSE i \in 1..Len(CharOrder) : CharOrder[i] = c

\* l < r on strings.
StringLess(l, r) ==
  \E i \in 1..Len(r) :
    /\ \A j \in 1..(i - 1) : j <= Len(l) /\ l[j] = r[j]
    /\ \/ i = Len(l) + 1
       \/ i <= Len(l) /\ CharRank(l[i]) < CharRank(r[i])

\* Array.prototype.sort by fullname (the names are distinct).
sort(targets) ==
  [i \in 1..Len(targets) |->
     CHOOSE t \in {targets[k] : k \in 1..Len(targets)} :
       Cardinality({k \in 1..Len(targets) :
                      StringLess(targets[k].fullname, t.fullname)}) = i - 1]

Fire(d, event) == [d EXCEPT !.fired[event] = @ + 1]

LaunchCommand(d, command, target) ==
  [d EXCEPT !.launched = Append(@, [command |-> command, target |-> target])]

\* reloadConfig with the answer of get-targets.
reloadConfig(d, targets) ==
  Fire(Fire(Fire([d EXCEPT !.targets = targets], "launchTargetChanged"),
            "buildTargetsChanged"),
       "testsChanged")

DanIdle == ~danExt.task.defined /\ danExt.made < MaxDanCalls

Invoked(d) == [d EXCEPT !.made = @ + 1]

Task(op, at, items, fireEvent) ==
  Def([op |-> op, at |-> at, items |-> items, fireEvent |-> fireEvent])

DanAt(op, at) ==
  /\ danExt.task.defined
  /\ danExt.task.value.op = op
  /\ danExt.task.value.at = at

DanUnchanged ==
  UNCHANGED <<pc, call, bars, onCancel, nextInst, channel, notifications,
              diags, received, routed, uncaught, nData, calls, execs,
              codeData, proc, rc, cancelRequested, outcome, danConfig,
              provider>>

\* Dan.configure: the configuration is loaded or not and names a current
\* context (once loaded it stays loaded), notifyUpdated resets the provider's
\* cache, and reloadConfig stores the answer of get-targets unless it fails.
configure(d, context, ok, targets) ==
  IF ok THEN reloadConfig([d EXCEPT !.context = context], targets)
        ELSE [d EXCEPT !.context = context]

Contexts(d) ==
  {Def(name) : name \in ContextNames}
    \cup (IF d.context.defined THEN {} ELSE {Undefined})

Configure(context, ok, targets) ==
  /\ danExt.made < MaxDanCalls
  /\ context \in Contexts(danExt)
  /\ danExt' = configure(Invoked(danExt), context, ok, targets)
  /\ provider' = [provider EXCEPT !.configurationCache = <<>>]
  /\ UNCHANGED <<pc, call, bars, onCancel, nextInst, channel, notifications,
                 diags, received, routed, uncaught, nData, calls, execs,
                 codeData, proc, rc, cancelRequested, outcome, danConfig>>

\* The ids promptLaunchTarget offers: those of the executable targets, sorted
\* by fullname.
LaunchItems(d) ==
  LET shown == sort(SelectSeq(d.targets, LAMBDA t : t.executable))
  IN  [i \in 1..Len(shown) |-> getTargetId(d, shown[i])]

\* The test of run and debug.
Launchable(d) ==
  launchTarget(d).defined /\ launchTarget(d).value.executable

\* run after its prompt.
run_launch(d) ==
  [(IF Launchable(d) THEN LaunchCommand(d, "run", launchTarget(d)) ELSE d)
     EXCEPT !.task = Undefined]

\* debug after its prompt: the build is awaited.
debug_launch(d) ==
  IF Launchable(d)
    THEN [LaunchCommand(d, "build", launchTarget(d))
            EXCEPT !.task = Task("debug", "build", <<>>, TRUE)]
    ELSE [d EXCEPT !.task = Undefined]

PromptLaunchTarget ==
  /\ DanIdle
  /\ danExt' = [Invoked(danExt) EXCEPT
                  !.task = Task("promptLaunchTarget", "pick",
                                LaunchItems(danExt), TRUE)]
  /\ DanUnchanged

\* The user picks the choice-th id, or dismisses the picker (0).
LaunchTargetPicked(choice) ==
  /\ danExt.task.defined
  /\ danExt.task.value.op \in {"promptLaunchTarget", "run", "debug"}
  /\ danExt.task.value.at = "pick"
  /\ choice \in 0..Len(danExt.task.value.items)
  /\ \E d \in {IF choice > 0 /\ danExt.task.value.items[choice].defined
                 THEN Fire([danExt EXCEPT !.launchTarget =
                                            danExt.task.value.items[choice]],
                           "launchTargetChanged")
                 ELSE danExt} :
       danExt' = CASE danExt.task.value.op = "run" -> run_launch(d)
                   [] danExt.task.value.op = "debug" -> debug_launch(d)
                   [] OTHER -> [d EXCEPT !.task = Undefined]
  /\ DanUnchanged

\* run and debug up to the prompt, with the outcome of the configuration step
\* of ensureConfigured.
Run(context, ok, targets) ==
  /\ DanIdle
  /\ context \in Contexts(danExt)
  /\ \E d \in {IF danExt.context.defined THEN Invoked(danExt)
               ELSE configure(Invoked(danExt), context, ok, targets)} :
       danExt' = IF ~danExt.context.defined /\ ~ok THEN d
                 ELSE IF ~Launchable(d)
                   THEN [d EXCEPT !.task = Task("run", "pick", LaunchItems(d),
                                                TRUE)]
                 ELSE run_launch(d)
  /\ provider' = IF danExt.context.defined THEN provider
                 ELSE [provider EXCEPT !.configurationCache = <<>>]
  /\ UNCHANGED <<pc, call, bars, onCancel, nextInst, channel, notifications,
                 diags, received, routed, uncaught, nData, calls, execs,
                 codeData, proc, rc, cancelRequested, outcome, danConfig>>

Debug(context, ok, targets) ==
  /\ DanIdle
  /\ context \in Contexts(danExt)
  /\ \E d \in {IF danExt.context.defined THEN Invoked(danExt)
               ELSE configure(Invoked(danExt), context, ok, targets)} :
       danExt' = IF ~danExt.context.defined /\ ~ok THEN d
                 ELSE IF ~Launchable(d)
                   THEN [d EXCEPT !.task = Task("debug", "pick",
                                                LaunchItems(d), TRUE)]
                 ELSE debug_launch(d)
  /\ provider' = IF danExt.context.defined THEN provider
                 ELSE [provider EXCEPT !.configurationCache = <<>>]
  /\ UNCHANGED <<pc, call, bars, onCancel, nextInst, channel, notifications,
                 diags, received, routed, uncaught, nData, calls, execs,
                 codeData, proc, rc, cancelRequested, outcome, danConfig>>

\* The build of debug has exited: on success debuggerModule.debug is called
\* with the launch target of that moment, and throws before it starts a
\* debugger unless that is an executable target.
BuildExited(ok) ==
  /\ DanAt("debug", "build")
  /\ danExt' =
       [(IF ok /\ Launchable(danExt)
           THEN LaunchCommand(danExt, "debug", launchTarget(danExt))
           ELSE danExt)
          EXCEPT !.task = Undefined]
  /\ DanUnchanged

Clean ==
  /\ DanIdle
  /\ danExt' = IF danExt.context.defined
                 THEN LaunchCommand(Invoked(danExt), "clean", Undefined)
                 ELSE Invoked(danExt)
  /\ DanUnchanged

\* promptBuildTargets up to its await: the targets are sorted in place and
\* shown.
PromptBuildTargets ==
  /\ DanIdle
  /\ danExt' = [Invoked(danExt) EXCEPT
                  !.targets = sort(@),
                  !.task = Task("promptBuildTargets", "pick",
                                sort(danExt.targets), TRUE)]
  /\ DanUnchanged

\* The ids stored for a selection that is not taken for all targets.
SelectedIds(d, items, selection) ==
  LET chosen == SelectSeq([i \in 1..Len(items) |-> i],
                          LAMBDA i : i \in selection)
  IN  [n \in 1..Len(chosen) |-> getTargetId(d, items[chosen[n]])]

\* onDidHide compares the number of selected items with the number of
\* targets.
promptBuildTargets_all(d, items, selection) ==
  Cardinality(selection) = Len(d.targets)

\* The picker is hidden with the items of the selection checked.
BuildTargetsHidden(selection) ==
  /\ DanAt("promptBuildTargets", "pick")
  /\ selection \subseteq 1..Len(danExt.task.value.items)
  /\ \E items \in {danExt.task.value.items} :
       danExt' =
         IF selection = {}
           THEN [danExt EXCEPT !.task = Undefined, !.selectedItems = {}]
         ELSE Fire([danExt EXCEPT
                      !.task = Undefined,
                      !.selectedItems = selection,
                      !.buildTargets =
                        IF promptBuildTargets_all(danExt, items, selection)
                          THEN <<>>
                          ELSE SelectedIds(danExt, items, selection)],
                   "buildTargetsChanged")
  /\ DanUnchanged

MaxTargets == 2

DanNext ==
  \/ \E context \in {Undefined} \cup {Def(n) : n \in ContextNames},
        ok \in BOOLEAN, targets \in TargetLists :
       \/ Configure(context, ok, targets)
       \/ Run(context, ok, targets)
       \/ Debug(context, ok, targets)
  \/ PromptLaunchTarget
  \/ \E choice \in 0..MaxTargets : LaunchTargetPicked(choice)
  \/ \E ok \in BOOLEAN : BuildExited(ok)
  \/ Clean
  \/ PromptBuildTargets
  \/ \E selection \in SUBSET (1..MaxTargets) : BuildTargetsHidden(selection)

DanSpec == Init /\ [][DanNext]_vars

\* ----------------------------------------------------------------- C35
\* C35: the launchTarget getter answers undefined whenever no launch target
\* id is stored; when one is stored it answers undefined or a member of
\* targets whose id is the stored id. This holds with and without a current
\* context.
C35_LaunchTargetMatchesStoredId ==
  /\ ~danExt.launchTarget.defined => ~launchTarget(danExt).defined
  /\ launchTarget(danExt).defined =>
       \E i \in 1..Len(danExt.targets) :
         /\ danExt.targets[i] = launchTarget(danExt).value
         /\ getTargetId(danExt, danExt.targets[i]) = danExt.launchTarget

\* ----------------------------------------------------------------- C37
\* The step in which the build targets picker is hidden.
BuildPickerHides ==
  DanAt("promptBuildTargets", "pick") /\ ~danExt'.task.defined

\* C37: when the build targets picker closes with nothing selected, the
\* stored selection stays and buildTargetsChanged is not fired; with every
\* shown target selected the empty selection is stored; with any other
\* selection the ids of the selected targets are stored, in the order shown,
\* and buildTargetsChanged is fired once.
C37_BuildTargetsSelection ==
  [][BuildPickerHides =>
       \E items \in {danExt.task.value.items},
          selection \in {danExt'.selectedItems} :
         IF selection = {}
           THEN /\ danExt'.buildTargets = danExt.buildTargets
                /\ danExt'.fired = danExt.fired
         ELSE /\ danExt'.buildTargets =
                   IF selection = 1..Len(items) THEN <<>>
                   ELSE SelectedIds(danExt, items, selection)
              /\ danExt'.fired =
                   [danExt.fired EXCEPT !.buildTargetsChanged = @ + 1]]_vars

\* ----------------------------------------------------------------- C38
\* The command launched in this step, if one is.
Launches(c) == danExt'.launched = Append(danExt.launched, c)

\* C38: the run command, the build of debug and the debugger are launched
\* only for a launch target that is selected (its id is the stored id), is a
\* member of targets and is executable; clean is launched only when a
\* configuration is loaded; and a step launches at most one command.
C38_LaunchOnlyWithTarget ==
  [][/\ \/ danExt'.launched = danExt.launched
        \/ \E c \in {danExt'.launched[Len(danExt'.launched)]} : Launches(c)
     /\ \A c \in {danExt'.launched[i] : i \in 1..Len(danExt'.launched)} :
          Launches(c) =>
            IF c.command = "clean" THEN danExt.context.defined
            ELSE /\ danExt'.launchTarget.defined
                 /\ c.target.defined
                 /\ c.target.value.executable
                 /\ getTargetId(danExt', c.target.value) = danExt'.launchTarget
                 /\ \E i \in 1..Len(danExt'.targets) :
                      danExt'.targets[i] = c.target.value]_vars

====
